---- MODULE Spec2Model ----
(***************************************************************************)
(* ckanext-iaest: the mapping layer between DCAT/RDF graphs, CKAN dataset  *)
(* dicts and the flat IAEST JSON dicts.                                    *)
(*                                                                         *)
(*   converters.py : iaest_to_ckan, ckan_to_iaest                          *)
(*   profiles.py   : RDFProfile helpers, EuropeanDCATAPProfile             *)
(*                   parse_dataset / graph_from_dataset                    *)
(*                                                                         *)
(* Python values are tagged tuples so that values of different Python      *)
(* types can be compared: None, S(chars) for a string (a sequence of       *)
(* one-character atoms), I(n) for an integer, D(f) for a nested dict.      *)
(* A dict is a function whose DOMAIN is the set of keys present; a list is *)
(* a sequence.                                                             *)
(***************************************************************************)
EXTENDS Integers, Sequences, FiniteSets, TLC

VARIABLES calls, results, iaest_dict, package_dict, g, dataset_dict, config, exc, input

vars == <<calls, results, iaest_dict, package_dict, g, dataset_dict, config, exc, input>>

(***************************************************************************)
(* Bounds of the model.                                                    *)
(***************************************************************************)
\* longest list (distributions, resources, tags, extras, languages) drawn as input
MaxLen == 2
\* longest byteSize string drawn as input
MaxDigits == 2

(***************************************************************************)
(* Python values.                                                          *)
(***************************************************************************)
None == <<"None">>

S(chars) == <<"str", chars>>

I(n) == <<"int", n>>

D(f) == <<"dict", f>>

IsNone(v) == v[1] = "None"

IsStr(v) == v[1] = "str"

IsInt(v) == v[1] = "int"

IsDict(v) == v[1] = "dict"

EmptyDict == [k \in {} |-> None]

\* d.get(k)
Get(d, k) == IF k \in DOMAIN d THEN d[k] ELSE None

\* d.get(k, [])
GetList(d, k) == IF k \in DOMAIN d THEN d[k] ELSE <<>>

\* d[k] = v
Put(d, k, v) == (k :> v) @@ d

\* bool(v) of a scalar or nested dict
Truthy(v) ==
  CASE IsNone(v) -> FALSE
    [] IsStr(v) -> v[2] # <<>>
    [] IsInt(v) -> v[2] # 0
    [] IsDict(v) -> DOMAIN v[2] # {}

\* a or b
Or(a, b) == IF Truthy(a) THEN a ELSE b

Last(seq) == seq[Len(seq)]

SeqsUpTo(set, n) == UNION {[1..k -> set] : k \in 0..n}

(***************************************************************************)
(* str.split(','), ','.join(list), str.strip(), int(str)                   *)
(***************************************************************************)
CommaPositions(chars) == {i \in 1..Len(chars) : chars[i] = ","}

Min(set) == CHOOSE m \in set : \A n \in set : m <= n

RECURSIVE Split(_)
Split(chars) ==
  IF CommaPositions(chars) = {}
  THEN <<chars>>
  ELSE LET i == Min(CommaPositions(chars))
       IN <<SubSeq(chars, 1, i - 1)>> \o Split(SubSeq(chars, i + 1, Len(chars)))

RECURSIVE Join(_)
Join(list) ==
  IF list = <<>> THEN <<>>
  ELSE IF Len(list) = 1 THEN list[1]
  ELSE list[1] \o <<",">> \o Join(Tail(list))

RECURSIVE LStrip(_)
LStrip(chars) ==
  IF chars # <<>> /\ Head(chars) = " " THEN LStrip(Tail(chars)) ELSE chars

RECURSIVE RStrip(_)
RStrip(chars) ==
  IF chars # <<>> /\ chars[Len(chars)] = " "
  THEN RStrip(SubSeq(chars, 1, Len(chars) - 1))
  ELSE chars

Strip(chars) == RStrip(LStrip(chars))

Digits == {"0", "1", "2", "3", "4", "5", "6", "7", "8", "9"}

DigitValue(c) ==
  CASE c = "0" -> 0 [] c = "1" -> 1 [] c = "2" -> 2 [] c = "3" -> 3 [] c = "4" -> 4
    [] c = "5" -> 5 [] c = "6" -> 6 [] c = "7" -> 7 [] c = "8" -> 8 [] c = "9" -> 9

RECURSIVE Magnitude(_)
Magnitude(chars) ==
  IF chars = <<>> THEN 0
  ELSE 10 * Magnitude(SubSeq(chars, 1, Len(chars) - 1)) + DigitValue(chars[Len(chars)])

Unsigned(chars) ==
  IF chars # <<>> /\ Head(chars) \in {"-", "+"} THEN Tail(chars) ELSE chars

\* int(v) does not raise ValueError
IntParses(v) ==
  IF IsInt(v) THEN TRUE
  ELSE LET u == Unsigned(Strip(v[2]))
       IN u # <<>> /\ \A i \in 1..Len(u) : u[i] \in Digits

\* int(v), for a v that parses
IntOf(v) ==
  IF IsInt(v) THEN v[2]
  ELSE LET t == Strip(v[2])
       IN IF t # <<>> /\ Head(t) = "-" THEN 0 - Magnitude(Unsigned(t))
          ELSE Magnitude(Unsigned(t))

(***************************************************************************)
(* converters.py                                                           *)
(***************************************************************************)
TagsOf(keywords) == [i \in 1..Len(keywords) |-> [name |-> keywords[i]]]

PublisherExtras(iaest_publisher) ==
  IF IsStr(iaest_publisher)
  THEN <<[key |-> "iaest_publisher_name", value |-> iaest_publisher]>>
  ELSE IF IsDict(iaest_publisher) /\ Truthy(Get(iaest_publisher[2], "name"))
  THEN <<[key |-> "iaest_publisher_name", value |-> Get(iaest_publisher[2], "name")],
         [key |-> "iaest_publisher_email", value |-> Get(iaest_publisher[2], "mbox")]>>
  ELSE <<>>

LanguageValue(languages) == S(Join([i \in 1..Len(languages) |-> languages[i][2]]))

ExtrasOf(d) ==
  <<[key |-> "iaest_issued", value |-> Get(d, "issued")],
    [key |-> "iaest_modified", value |-> Get(d, "modified")],
    [key |-> "guid", value |-> Get(d, "identifier")],
    [key |-> "miKey", value |-> S(<<"Esta es mi KEY">>)]>>
  \o PublisherExtras(Get(d, "publisher"))
  \o <<[key |-> "language", value |-> LanguageValue(GetList(d, "language"))]>>

\* lines 49-53: the size key, set when byteSize is truthy and int() accepts it
ResourceSize(distribution, resource) ==
  LET byteSize == Get(distribution, "byteSize")
  IN IF Truthy(byteSize) /\ IntParses(byteSize)
     THEN Put(resource, "size", I(IntOf(byteSize)))
     ELSE resource

\* line 45
ResourceUrl(distribution) ==
  Or(Get(distribution, "downloadURL"), Get(distribution, "accessURL"))

ResourceOf(distribution) ==
  ResourceSize(distribution,
               [name |-> Get(distribution, "title"),
                description |-> Get(distribution, "description"),
                url |-> ResourceUrl(distribution),
                format |-> Get(distribution, "format")])

iaest_to_ckan(d) ==
  [title |-> Get(d, "title"),
   notes |-> Get(d, "description"),
   url |-> Get(d, "landingPage"),
   tags |-> TagsOf(GetList(d, "keyword")),
   extras |-> ExtrasOf(d),
   resources |-> [i \in 1..Len(GetList(d, "distribution")) |->
                    ResourceOf(GetList(d, "distribution")[i])]]

\* one pass of the loop over extras, lines 75-89
ApplyExtra(d, extra) ==
  CASE extra.key = "iaest_issued" -> Put(d, "issued", extra.value)
    [] extra.key = "iaest_modified" -> Put(d, "modified", extra.value)
    [] extra.key = "language" ->
         Put(d, "language", [i \in 1..Len(Split(extra.value[2])) |->
                               S(Split(extra.value[2])[i])])
    [] extra.key = "iaest_publisher_name" ->
         Put(d, "publisher", D(Put(d["publisher"][2], "name", extra.value)))
    [] extra.key = "iaest_publisher_email" ->
         Put(d, "publisher", D(Put(d["publisher"][2], "mbox", extra.value)))
    [] extra.key = "guid" -> Put(d, "identifier", extra.value)
    [] OTHER -> d

RECURSIVE ApplyExtras(_, _)
ApplyExtras(d, extras) ==
  IF extras = <<>> THEN d
  ELSE ApplyExtras(ApplyExtra(d, Head(extras)), Tail(extras))

MaintainerOverrides(d, package) ==
  IF Truthy(Get(package, "maintainer"))
  THEN LET named == Put(d["publisher"][2], "name", Get(package, "maintainer"))
       IN Put(d, "publisher",
              D(IF Truthy(Get(package, "maintainer_email"))
                THEN Put(named, "mbox", Get(package, "maintainer_email"))
                ELSE named))
  ELSE d

\* lines 91-94
MaintainerFallback(d, package) ==
  IF ~Truthy(Get(d["publisher"][2], "name")) /\ Truthy(Get(package, "maintainer"))
  THEN LET named == Put(d["publisher"][2], "name", Get(package, "maintainer"))
       IN Put(d, "publisher",
              D(IF Truthy(Get(package, "maintainer_email"))
                THEN Put(named, "mbox", Get(package, "maintainer_email"))
                ELSE named))
  ELSE d

DistributionLicenseOfResource(resource) == Get(resource, "license")

\* line 105
DistributionLicense(resource) == S(<<"cc-by-4.0">>)

DistributionOf(resource) ==
  [title |-> Get(resource, "name"),
   description |-> Get(resource, "description"),
   format |-> Get(resource, "format"),
   byteSize |-> Get(resource, "size"),
   accessURL |-> Get(resource, "url"),
   license |-> DistributionLicense(resource)]

ckan_to_iaest(package) ==
  LET head == [title |-> Get(package, "title"),
               description |-> Get(package, "notes"),
               landingPage |-> Get(package, "url"),
               keyword |-> [i \in 1..Len(GetList(package, "tags")) |->
                              GetList(package, "tags")[i].name],
               publisher |-> D(EmptyDict)]
      withExtras == ApplyExtras(head, GetList(package, "extras"))
  IN Put(MaintainerFallback(withExtras, package), "distribution",
         [i \in 1..Len(GetList(package, "resources")) |->
            DistributionOf(GetList(package, "resources")[i])])

(***************************************************************************)
(* profiles.py: RDF terms and the graph.                                   *)
(* A term is URIRef(chars), BNode(chars) or a literal Lit(chars, datatype, *)
(* lang); a triple is <<subject, predicate, object>> with the predicate a  *)
(* prefixed name; the graph self.g is the sequence of its triples in       *)
(* iteration order, without duplicates.                                    *)
(***************************************************************************)
URIRef(chars) == <<"uri", chars>>

BNode(chars) == <<"bnode", chars>>

Lit(chars, datatype, lang) == <<"lit", chars, datatype, lang>>

Literal(chars) == Lit(chars, "", "")

IsURIRef(term) == term[1] = "uri"

IsBNode(term) == term[1] = "bnode"

IsLiteral(term) == term[1] = "lit"

\* unicode(term)
Unicode(term) == S(term[2])

\* unicode(x) of a Python value: unicode(None) is u'None'
UnicodeOf(v) == IF IsNone(v) THEN S(<<"None">>) ELSE v

InGraph(graph, triple) == \E i \in 1..Len(graph) : graph[i] = triple

\* g.add(triple)
Add(graph, triple) == IF InGraph(graph, triple) THEN graph ELSE Append(graph, triple)

RECURSIVE AddAll(_, _)
AddAll(graph, triples) ==
  IF triples = <<>> THEN graph ELSE AddAll(Add(graph, Head(triples)), Tail(triples))

RECURSIVE Matching(_, _, _)
Matching(graph, subject, predicate) ==
  IF graph = <<>> THEN <<>>
  ELSE IF Head(graph)[1] = subject /\ Head(graph)[2] = predicate
       THEN <<Head(graph)[3]>> \o Matching(Tail(graph), subject, predicate)
       ELSE Matching(Tail(graph), subject, predicate)

\* g.objects(subject, predicate), in iteration order
Objects(graph, subject, predicate) == Matching(graph, subject, predicate)

_distributions(graph, dataset) == Objects(graph, dataset, "dcat:distribution")

_themes(graph, dataset) == Objects(graph, dataset, "dcat:theme")

\* the first object, or None
_object(graph, subject, predicate) ==
  IF Objects(graph, subject, predicate) = <<>> THEN None
  ELSE Head(Objects(graph, subject, predicate))

_object_value_last(graph, subject, predicate) ==
  IF Objects(graph, subject, predicate) = <<>> THEN S(<<>>)
  ELSE Unicode(Last(Objects(graph, subject, predicate)))

\* unicode of the first object, or ''
_object_value(graph, subject, predicate) ==
  IF Objects(graph, subject, predicate) = <<>> THEN S(<<>>)
  ELSE Unicode(Head(Objects(graph, subject, predicate)))

_object_value_int(graph, subject, predicate) ==
  LET object_value == _object_value(graph, subject, predicate)
  IN IF Truthy(object_value) /\ IntParses(object_value)
     THEN I(IntOf(object_value))
     ELSE None

_object_value_list(graph, subject, predicate) ==
  [i \in 1..Len(Objects(graph, subject, predicate)) |->
     Unicode(Objects(graph, subject, predicate)[i])]

(***************************************************************************)
(* The collaborators of the profile: CKAN's license register, group table  *)
(* and resource format registry.                                           *)
(***************************************************************************)
\* LicenseRegister().items(): (id, license) pairs in register order
LicenseRegister ==
  <<[id |-> S(<<"cc-by">>), title |-> S(<<"Creative Commons Attribution">>)],
    [id |-> S(<<"cc0">>), title |-> S(<<"CC0 1.0">>)],
    [id |-> S(<<"cc-by">>), title |-> S(<<"Attribution (duplicate entry)">>)]>>

Groups ==
  {[id |-> S(<<"g-1">>), name |-> S(<<"economia">>)],
   [id |-> S(<<"g-2">>), name |-> S(<<"salud">>)]}

\* Group.get(reference): the group with that id, else with that name, else None
GroupGet(reference) ==
  IF \E grp \in Groups : grp.id = reference
  THEN D(CHOOSE grp \in Groups : grp.id = reference)
  ELSE IF \E grp \in Groups : grp.name = reference
  THEN D(CHOOSE grp \in Groups : grp.name = reference)
  ELSE None

\* helpers.resource_formats(): lower-cased key -> [mimetype, format, description]
resource_formats ==
  (<<"csv">> :> <<S(<<"text", "/", "csv">>), S(<<"CSV">>), S(<<"Comma Separated Values File">>)>>)
  @@ (<<"text", "/", "csv">> :> <<S(<<"text", "/", "csv">>), S(<<"CSV">>), S(<<"Comma Separated Values File">>)>>)
  @@ (<<"json">> :> <<S(<<"application", "/", "json">>), S(<<"JSON">>), S(<<"JavaScript Object Notation">>)>>)
  @@ (<<"application", "/", "json">> :> <<S(<<"application", "/", "json">>), S(<<"JSON">>), S(<<"JavaScript Object Notation">>)>>)
  @@ (<<"atom">> :> <<S(<<"application", "/", "atom+xml">>), S(<<"atom">>), S(<<"Atom Feed">>)>>)
  @@ (<<"application", "/", "atom+xml">> :> <<S(<<"application", "/", "atom+xml">>), S(<<"atom">>), S(<<"Atom Feed">>)>>)

\* toolkit.check_ckan_version(min_version='2.3')
check_ckan_version == TRUE

DefaultConfig == [compatibility_mode |-> FALSE, normalize_ckan_format |-> TRUE]

dataset_ref == URIRef(<<"http://catalog/dataset/d1">>)

(***************************************************************************)
(* profiles.py: compound graph lookups.                                    *)
(***************************************************************************)
Contains(chars, c) == \E i \in 1..Len(chars) : chars[i] = c

\* the dict of the last agent of (subject, predicate); {} when there is none
_publisher(graph, subject, predicate) ==
  IF Objects(graph, subject, predicate) = <<>> THEN EmptyDict
  ELSE LET agent == Last(Objects(graph, subject, predicate))
       IN [uri |-> IF IsURIRef(agent) THEN Unicode(agent) ELSE S(<<>>),
           name |-> _object_value(graph, agent, "foaf:name"),
           email |-> _object_value(graph, agent, "foaf:mbox"),
           url |-> _object_value(graph, agent, "foaf:homepage"),
           type |-> _object_value(graph, agent, "dct:type"),
           title |-> _object_value(graph, agent, "dct:title")]

RECURSIVE LastMatchingLicense(_, _)
LastMatchingLicense(register, license_id_rdf) ==
  IF register = <<>> THEN <<S(<<>>), S(<<>>)>>
  ELSE IF Last(register).id = license_id_rdf
       THEN <<Last(register).id, Last(register).title>>
       ELSE LastMatchingLicense(SubSeq(register, 1, Len(register) - 1), license_id_rdf)

\* lines 352-358: the first register entry whose id equals the value
RECURSIVE FirstMatchingLicense(_, _)
FirstMatchingLicense(register, license_id_rdf) ==
  IF register = <<>> THEN <<S(<<>>), S(<<>>)>>
  ELSE IF Head(register).id = license_id_rdf
       THEN <<Head(register).id, Head(register).title>>
       ELSE FirstMatchingLicense(Tail(register), license_id_rdf)

_license(graph, ref) ==
  FirstMatchingLicense(LicenseRegister, _object_value(graph, ref, "dct:license"))

\* g.value(subject, RDF.value, default=None) and g.label(subject, default=None)
GraphValue(graph, subject, predicate) ==
  IF Objects(graph, subject, predicate) = <<>> THEN None
  ELSE Unicode(Head(Objects(graph, subject, predicate)))

\* lines 402-414: media type and label before normalization
FormatPair(graph, distribution) ==
  LET imt == _object_value(graph, distribution, "dcat:mediaType")
      _format == _object(graph, distribution, "dct:format")
  IN IF IsLiteral(_format)
     THEN IF ~Truthy(imt) /\ Contains(_format[2], "/")
          THEN <<Unicode(_format), None>>
          ELSE <<imt, Unicode(_format)>>
     ELSE IF (IsBNode(_format) \/ IsURIRef(_format))
             /\ _object(graph, _format, "rdf:type") = URIRef(<<"dct:IMT">>)
     THEN <<IF ~Truthy(imt)
            THEN UnicodeOf(GraphValue(graph, _format, "rdf:value"))
            ELSE imt,
            UnicodeOf(GraphValue(graph, _format, "rdfs:label"))>>
     ELSE <<imt, None>>

InRegistry(v) == IsStr(v) /\ v[2] \in DOMAIN resource_formats

NormalizeLabelToMimetype(imt, label) ==
  IF InRegistry(imt) THEN resource_formats[imt[2]][1]
  ELSE IF InRegistry(label) THEN resource_formats[label[2]][1]
  ELSE label

\* lines 423-426
NormalizeLabel(imt, label) ==
  IF InRegistry(imt) THEN resource_formats[imt[2]][2]
  ELSE IF InRegistry(label) THEN resource_formats[label[2]][2]
  ELSE label

_distribution_format(graph, distribution, normalize_ckan_format) ==
  LET pair == FormatPair(graph, distribution)
  IN IF (Truthy(pair[1]) \/ Truthy(pair[2])) /\ normalize_ckan_format /\ check_ckan_version
     THEN <<pair[1], NormalizeLabel(pair[1], pair[2])>>
     ELSE pair

(***************************************************************************)
(* RDFProfile._spatial                                                     *)
(***************************************************************************)
GEOJSON_IMT == "https://www.iana.org/assignments/media-types/application/vnd.geo+json"

\* GSP.wktLiteral
WktLiteral == "gsp:wktLiteral"

\* json.loads(text) accepts the text (an object between braces)
GeoJsonLoads(chars) == Len(chars) >= 2 /\ Head(chars) = "{" /\ Last(chars) = "}"

\* wkt.loads(text) accepts the text: POINT (x y)
WktLoads(chars) ==
  Len(chars) = 4 /\ chars[1] = "POINT" /\ chars[2] = "(" /\ chars[4] = ")"

\* the coordinates of a WKT point as json.dumps writes them
WktCoordinates ==
  ("1 2" :> "1.0, 2.0") @@ ("3 4" :> "3.0, 4.0") @@ ("5 6" :> "5.0, 6.0")
  @@ ("7 8" :> "7.0, 8.0")

\* json.dumps(wkt.loads(text))
WktToGeoJson(chars) ==
  <<"{", "\"type\": \"Point\", \"coordinates\": [", WktCoordinates[chars[3]], "]", "}">>

GeoJsonKeepFirst(geom, geometry) ==
  IF ~Truthy(geom) /\ (geometry[3] = GEOJSON_IMT \/ geometry[3] = "")
     /\ GeoJsonLoads(geometry[2])
  THEN S(geometry[2])
  ELSE geom

\* lines 314-320: a literal that is GeoJSON (typed so, or untyped) and loads
GeoJsonStep(geom, geometry) ==
  IF (geometry[3] = GEOJSON_IMT \/ geometry[3] = "") /\ GeoJsonLoads(geometry[2])
  THEN S(geometry[2])
  ELSE geom

\* lines 321-325: a WKT literal, when there is no geom yet
WktStep(geom, geometry) ==
  IF ~Truthy(geom) /\ geometry[3] = WktLiteral /\ WktLoads(geometry[2])
  THEN S(WktToGeoJson(geometry[2]))
  ELSE geom

\* lines 314-325, for one geometry
GeometryStep(geom, geometry) == WktStep(GeoJsonStep(geom, geometry), geometry)

\* lines 313-325
RECURSIVE Geometries(_, _)
Geometries(geom, geometries) ==
  IF geometries = <<>> THEN geom
  ELSE Geometries(GeometryStep(geom, Head(geometries)), Tail(geometries))

\* lines 326-329: the last label, if any
LastLabel(text, labels) == IF labels = <<>> THEN text ELSE Unicode(Last(labels))

IsLocation(graph, spatial) ==
  InGraph(graph, <<spatial, "rdf:type", URIRef(<<"dct:Location">>)>>)

\* lines 306-329, for one spatial object
SpatialStep(graph, acc, spatial) ==
  [uri |-> IF IsURIRef(spatial) THEN Unicode(spatial) ELSE acc.uri,
   text |-> IF IsLocation(graph, spatial)
            THEN LastLabel(LastLabel(IF IsLiteral(spatial) THEN Unicode(spatial) ELSE acc.text,
                                     Objects(graph, spatial, "skos:prefLabel")),
                           Objects(graph, spatial, "rdfs:label"))
            ELSE IF IsLiteral(spatial) THEN Unicode(spatial) ELSE acc.text,
   geom |-> IF IsLocation(graph, spatial)
            THEN Geometries(acc.geom, Objects(graph, spatial, "locn:geometry"))
            ELSE acc.geom]

RECURSIVE SpatialFold(_, _, _)
SpatialFold(graph, acc, spatials) ==
  IF spatials = <<>> THEN acc
  ELSE SpatialFold(graph, SpatialStep(graph, acc, Head(spatials)), Tail(spatials))

\* geometry.datatype of an object that is no literal raises AttributeError
GeometryWithoutDatatype(graph, spatials) ==
  \E i \in 1..Len(spatials) :
    /\ IsLocation(graph, spatials[i])
    /\ \E j \in 1..Len(Objects(graph, spatials[i], "locn:geometry")) :
         ~IsLiteral(Objects(graph, spatials[i], "locn:geometry")[j])

_spatial(graph, subject, predicate) ==
  IF GeometryWithoutDatatype(graph, Objects(graph, subject, predicate))
  THEN [value |-> EmptyDict, exc |-> "AttributeError"]
  ELSE [value |-> SpatialFold(graph, [uri |-> None, text |-> None, geom |-> None],
                              Objects(graph, subject, predicate)),
        exc |-> ""]

(***************************************************************************)
(* RDFProfile._time_interval                                               *)
(***************************************************************************)
\* lines 192-202: the value of the first node of the W3C predicate, if any
W3CDate(graph, interval, predicate, date) ==
  IF Objects(graph, interval, predicate) = <<>> THEN date
  ELSE _object_value(graph, Head(Objects(graph, interval, predicate)), "time:inXSDDateTime")

IntervalStepCarry(graph, dates, interval) ==
  <<W3CDate(graph, interval, "time:hasBeginning", dates[1]),
    W3CDate(graph, interval, "time:hasEnd", dates[2])>>

\* lines 185-202 for an interval without schema.org dates: both dates are
\* assigned from the schema.org lookup first, whatever they held before
IntervalStep(graph, dates, interval) ==
  <<W3CDate(graph, interval, "time:hasBeginning",
            _object_value(graph, interval, "schema:startDate")),
    W3CDate(graph, interval, "time:hasEnd",
            _object_value(graph, interval, "schema:endDate"))>>

\* lines 183-204
RECURSIVE TimeIntervals(_, _, _)
TimeIntervals(graph, dates, intervals) ==
  IF intervals = <<>> THEN dates
  ELSE IF \/ Truthy(_object_value(graph, Head(intervals), "schema:startDate"))
          \/ Truthy(_object_value(graph, Head(intervals), "schema:endDate"))
  THEN <<_object_value(graph, Head(intervals), "schema:startDate"),
         _object_value(graph, Head(intervals), "schema:endDate")>>
  ELSE TimeIntervals(graph, IntervalStep(graph, dates, Head(intervals)), Tail(intervals))

_time_interval(graph, subject, predicate) ==
  TimeIntervals(graph, <<None, None>>, Objects(graph, subject, predicate))

(***************************************************************************)
(* EuropeanDCATAPProfile.parse_dataset                                     *)
(***************************************************************************)
RECURSIVE RemoveFirst(_, _)
RemoveFirst(list, x) ==
  IF list = <<>> THEN <<>>
  ELSE IF Head(list) = x THEN Tail(list)
  ELSE <<Head(list)>> \o RemoveFirst(Tail(list), x)

HasComma(keyword) == Contains(keyword[2], ",")

\* [k for k in keywords if ',' in k]
RECURSIVE WithCommas(_)
WithCommas(keywords) ==
  IF keywords = <<>> THEN <<>>
  ELSE IF HasComma(Head(keywords)) THEN <<Head(keywords)>> \o WithCommas(Tail(keywords))
  ELSE WithCommas(Tail(keywords))

FragmentsUntrimmed(keyword) ==
  [i \in 1..Len(Split(keyword[2])) |-> S(Split(keyword[2])[i])]

\* [k.strip() for k in keyword.split(',')]
Fragments(keyword) ==
  [i \in 1..Len(Split(keyword[2])) |-> S(Strip(Split(keyword[2])[i]))]

RECURSIVE SplitInPlace(_, _)
SplitInPlace(keywords, keywords_with_commas) ==
  IF keywords_with_commas = <<>> THEN keywords
  ELSE LET keyword == Head(keywords_with_commas)
       IN SplitInPlace(Fragments(keyword) \o RemoveFirst(keywords, keyword),
                       Tail(keywords_with_commas))

\* lines 655-657: remove each keyword with a comma and extend the list with its fragments
RECURSIVE SplitKeywords(_, _)
SplitKeywords(keywords, keywords_with_commas) ==
  IF keywords_with_commas = <<>> THEN keywords
  ELSE LET keyword == Head(keywords_with_commas)
       IN SplitKeywords(RemoveFirst(keywords, keyword) \o Fragments(keyword),
                        Tail(keywords_with_commas))

ParseTags(graph, ref) ==
  LET keywords == _object_value_list(graph, ref, "dcat:keyword")
  IN TagsOf(SplitKeywords(keywords, WithCommas(keywords)))

\* a loop "value = _object_value(node, predicate); if value: d[key] = value"
RECURSIVE SetIfValue(_, _, _, _)
SetIfValue(d, graph, node, items) ==
  IF items = <<>> THEN d
  ELSE LET value == _object_value(graph, node, Head(items)[2])
       IN SetIfValue(IF Truthy(value) THEN Put(d, Head(items)[1], value) ELSE d,
                     graph, node, Tail(items))

BasicFields ==
  <<<<"title", "dct:title">>, <<"notes", "dct:description">>,
    <<"url", "dcat:landingPage">>, <<"version", "owl:versionInfo">>>>

\* lines 676-680
ParsePublisher(d, graph, ref) ==
  LET publisher == _publisher(graph, ref, "dct:publisher")
  IN Put(Put(Put(Put(d, "maintainer", Get(publisher, "title")),
                 "author", Get(publisher, "title")),
             "author_email", _object_value(graph, ref, "dcat:author_email")),
         "url", Get(publisher, "url"))

\* lines 683-687
ParseVersion(d, graph, ref) ==
  IF ~Truthy(Get(d, "version")) /\ Truthy(_object_value(graph, ref, "adms:version"))
  THEN Put(d, "version", _object_value(graph, ref, "adms:version"))
  ELSE d

ExtrasTable ==
  <<<<"01_IAEST_Tema estadistico", "dcat:tema_estadistico">>,
    <<"04_IAEST_Unidad de medida", "dcat:unidad_medida">>,
    <<"06_IAEST_Periodo base", "dcat:periodo_base">>,
    <<"07_IAEST_Tipo de operacion", "dcat:tipo_operacion">>,
    <<"08_IAEST_Tipologia de datos de origen", "dcat:tipologia_datos_origen">>,
    <<"09_IAEST_Fuente", "dcat:fuente">>,
    <<"11_IAEST_Tratamiento estadistico", "dcat:tratamiento_estadistico">>,
    <<"5_IAEST_Legislacion UE", "dcat:legislacion_ue">>,
    <<"Data Dictionary URL0", "dcat:urlDictionary">>,
    <<"Granularity", "dcat:granularity">>,
    <<"LangES", "dcat:language">>,
    <<"Spatial", "dct:spatial">>,
    <<"TemporalFrom", "dct:temporalFrom">>,
    <<"TemporalUntil", "dct:temporalUntil">>,
    <<"nameAragopedia", "dcat:name_aragopedia">>,
    <<"shortUriAragopedia", "dcat:short_uri_aragopedia">>,
    <<"typeAragopedia", "dcat:type_aragopedia">>,
    <<"uriAragopedia", "dcat:uri_aragopedia">>>>

DataDictionaryText == S(<<"El diccionario del dato se encuentra en la siguiente url">>)

RECURSIVE ParseExtrasDictionaryLast(_, _, _)
ParseExtrasDictionaryLast(graph, ref, table) ==
  IF table = <<>> THEN <<>>
  ELSE (IF ~Truthy(_object_value(graph, ref, Head(table)[2])) THEN <<>>
        ELSE <<[key |-> Head(table)[1], value |-> _object_value(graph, ref, Head(table)[2])]>>)
       \o ParseExtrasDictionaryLast(graph, ref, Tail(table))
       \o (IF Truthy(_object_value(graph, ref, Head(table)[2]))
              /\ Head(table)[1] = "Data Dictionary URL0"
           THEN <<[key |-> "Data Dictionary", value |-> DataDictionaryText]>>
           ELSE <<>>)

\* lines 693-718
RECURSIVE ParseExtras(_, _, _)
ParseExtras(graph, ref, table) ==
  IF table = <<>> THEN <<>>
  ELSE LET key == Head(table)[1]
           value == _object_value(graph, ref, Head(table)[2])
       IN (IF ~Truthy(value) THEN <<>>
           ELSE IF key = "Data Dictionary URL0"
           THEN <<[key |-> key, value |-> value],
                  [key |-> "Data Dictionary", value |-> DataDictionaryText]>>
           ELSE <<[key |-> key, value |-> value]>>)
          \o ParseExtras(graph, ref, Tail(table))

\* lines 731-734
ParseLicense(d, graph, ref) ==
  Put(Put(d, "license_id", _license(graph, ref)[1]),
      "license_title", _license(graph, ref)[2])

RECURSIVE ThemeGroupsSkipUnknown(_, _, _)
ThemeGroupsSkipUnknown(graph, themes, groups) ==
  IF themes = <<>> THEN [groups |-> groups, exc |-> ""]
  ELSE LET theme_id == _object_value(graph, Head(themes), "dct:identifier")
           group == GroupGet(theme_id)
       IN IF Truthy(theme_id) /\ ~IsNone(group)
          THEN ThemeGroupsSkipUnknown(graph, Tail(themes),
                                      Append(groups, [id |-> group[2].id]))
          ELSE ThemeGroupsSkipUnknown(graph, Tail(themes), groups)

\* lines 738-746: group.id on the None that Group.get returns raises AttributeError
RECURSIVE ThemeGroups(_, _, _)
ThemeGroups(graph, themes, groups) ==
  IF themes = <<>> THEN [groups |-> groups, exc |-> ""]
  ELSE LET theme_id == _object_value(graph, Head(themes), "dct:identifier")
           group == GroupGet(theme_id)
       IN IF ~Truthy(theme_id) THEN ThemeGroups(graph, Tail(themes), groups)
          ELSE IF IsNone(group) THEN [groups |-> groups, exc |-> "AttributeError"]
          ELSE ThemeGroups(graph, Tail(themes), Append(groups, [id |-> group[2].id]))

SimpleResourceFields ==
  <<<<"name", "dct:title">>, <<"description", "dct:description">>,
    <<"download_url", "dcat:downloadURL">>, <<"issued", "dct:issued">>,
    <<"modified", "dct:modified">>, <<"status", "adms:status">>,
    <<"rights", "dct:rights">>, <<"license", "dct:license">>>>

ListResourceFields ==
  <<<<"language", "dct:language">>, <<"documentation", "foaf:page">>,
    <<"conforms_to", "dct:conformsTo">>>>

RECURSIVE JoinWith(_, _)
JoinWith(list, sep) ==
  IF list = <<>> THEN <<>>
  ELSE IF Len(list) = 1 THEN list[1]
  ELSE list[1] \o sep \o JoinWith(Tail(list), sep)

\* json.dumps(values) of a list of strings
JsonDumps(values) ==
  S(<<"[">> \o JoinWith([i \in 1..Len(values) |-> <<"\"">> \o values[i][2] \o <<"\"">>],
                        <<",", " ">>)
    \o <<"]">>)

ResourceUrlDownloadFirst(graph, distribution) ==
  Or(_object_value(graph, distribution, "dcat:downloadURL"),
     _object_value(graph, distribution, "dcat:accessURL"))

\* lines 770-773
ParsedResourceUrl(graph, distribution) ==
  Or(_object_value(graph, distribution, "dcat:accessURL"),
     _object_value(graph, distribution, "dcat:downloadURL"))

\* lines 775-782
RECURSIVE SetListFields(_, _, _, _)
SetListFields(d, graph, node, items) ==
  IF items = <<>> THEN d
  ELSE LET values == _object_value_list(graph, node, Head(items)[2])
       IN SetListFields(IF values # <<>> THEN Put(d, Head(items)[1], JsonDumps(values)) ELSE d,
                        graph, node, Tail(items))

\* lines 787-796
SetFormat(d, graph, distribution, normalize_ckan_format) ==
  LET pair == _distribution_format(graph, distribution, normalize_ckan_format)
      imt == pair[1]
      label == pair[2]
      withType == IF Truthy(imt) THEN Put(d, "mimetype", imt) ELSE d
  IN IF Truthy(label) THEN Put(withType, "format", label)
     ELSE IF Truthy(imt) THEN Put(withType, "format", imt)
     ELSE withType

\* lines 799-801
SetSize(d, graph, distribution) ==
  LET size == _object_value_int(graph, distribution, "dcat:byteSize")
  IN IF ~IsNone(size) THEN Put(d, "size", size) ELSE d

\* lines 804-810
RECURSIVE SetChecksums(_, _, _)
SetChecksums(d, graph, checksums) ==
  IF checksums = <<>> THEN d
  ELSE LET algorithm == _object_value(graph, Head(checksums), "spdx:algorithm")
           checksum_value == _object_value(graph, Head(checksums), "spdx:checksumValue")
           withAlgorithm == IF Truthy(algorithm) THEN Put(d, "hash_algorithm", algorithm) ELSE d
       IN SetChecksums(IF Truthy(checksum_value)
                       THEN Put(withAlgorithm, "hash", checksum_value)
                       ELSE withAlgorithm,
                       graph, Tail(checksums))

\* lines 753-816: the resource dict of one distribution
ParseResource(graph, distribution, normalize_ckan_format) ==
  LET simple == SetIfValue(EmptyDict, graph, distribution, SimpleResourceFields)
      withUrl == Put(simple, "url", ParsedResourceUrl(graph, distribution))
      withLists == SetListFields(withUrl, graph, distribution, ListResourceFields)
      withFormat == SetFormat(withLists, graph, distribution, normalize_ckan_format)
      withSize == SetSize(withFormat, graph, distribution)
      withHash == SetChecksums(withSize, graph, Objects(graph, distribution, "spdx:checksum"))
  IN Put(withHash, "uri", IF IsURIRef(distribution) THEN Unicode(distribution) ELSE S(<<>>))

ParseResources(graph, ref, normalize_ckan_format) ==
  [i \in 1..Len(_distributions(graph, ref)) |->
     ParseResource(graph, _distributions(graph, ref)[i], normalize_ckan_format)]

(***************************************************************************)
(* The compatibility-mode pass, lines 820-831.                             *)
(***************************************************************************)
IsJsonList(chars) == Len(chars) >= 2 /\ Head(chars) = "[" /\ Last(chars) = "]"

IsQuoted(chars) == Len(chars) >= 2 /\ Head(chars) = "\"" /\ Last(chars) = "\""

JsonPieces(chars) ==
  IF Len(chars) = 2 THEN <<>>
  ELSE [i \in 1..Len(Split(SubSeq(chars, 2, Len(chars) - 1))) |->
          Strip(Split(SubSeq(chars, 2, Len(chars) - 1))[i])]

\* json.loads(value) returns a list of strings
JsonLoads(chars) ==
  IsJsonList(chars) /\ \A i \in 1..Len(JsonPieces(chars)) : IsQuoted(JsonPieces(chars)[i])

JsonItems(chars) ==
  [i \in 1..Len(JsonPieces(chars)) |->
     SubSeq(JsonPieces(chars)[i], 2, Len(JsonPieces(chars)[i]) - 1)]

Collation == <<" ", ",", "/", "0", "1", "2", "a", "b", "c", "en", "es">>

Rank(c) == IF \E i \in 1..Len(Collation) : Collation[i] = c
           THEN CHOOSE i \in 1..Len(Collation) : Collation[i] = c
           ELSE Len(Collation) + 1

RECURSIVE Before(_, _)
Before(a, b) ==
  IF a = <<>> THEN TRUE
  ELSE IF b = <<>> THEN FALSE
  ELSE IF Rank(Head(a)) # Rank(Head(b)) THEN Rank(Head(a)) < Rank(Head(b))
  ELSE Before(Tail(a), Tail(b))

RECURSIVE Insert(_, _)
Insert(sorted, x) ==
  IF sorted = <<>> THEN <<x>>
  ELSE IF Before(x, Head(sorted)) THEN <<x>> \o sorted
  ELSE <<Head(sorted)>> \o Insert(Tail(sorted), x)

RECURSIVE Sorted(_)
Sorted(list) == IF list = <<>> THEN <<>> ELSE Insert(Sorted(Tail(list)), Head(list))

CompatKeyEveryKey(key) == "dcat_" \o key

\* lines 823-826
CompatKey(key) ==
  IF key \in {"issued", "modified", "publisher_name", "publisher_email"}
  THEN "dcat_" \o key ELSE key

RECURSIVE CompatExtras(_, _)
CompatExtras(done, extras) ==
  IF extras = <<>> THEN [extras |-> done, exc |-> ""]
  ELSE LET key == CompatKey(Head(extras).key)
           value == Head(extras).value
       IN IF key # "language"
          THEN CompatExtras(Append(done, [key |-> key, value |-> value]), Tail(extras))
          ELSE IF IsStr(value) /\ JsonLoads(value[2])
          THEN CompatExtras(Append(done, [key |-> key,
                                          value |-> S(Join(Sorted(JsonItems(value[2]))))]),
                            Tail(extras))
          ELSE [extras |-> done \o <<[key |-> key, value |-> value]>> \o Tail(extras),
                exc |-> "ValueError"]

(***************************************************************************)
(* parse_dataset(dataset_dict, dataset_ref): the dict as the call leaves   *)
(* it, the exception that escapes ("" for none) and whether it returned.   *)
(***************************************************************************)
ResetCollections(d) ==
  [tags |-> <<>>, extras |-> <<>>, resources |-> <<>>, groups |-> <<>>] @@ d

KeepCollections(d) ==
  d @@ [tags |-> <<>>, extras |-> <<>>, resources |-> <<>>, groups |-> <<>>]

\* lines 645-648
InitCollections(d) == ResetCollections(d)

\* list.append of each item to d[key]
Extend(d, key, items) == Put(d, key, d[key] \o items)

\* lines 645-734: tags, basic fields, publisher, version, extras and license
ParseFields(graph, d, ref) ==
  ParseLicense(
    Extend(ParseVersion(
             ParsePublisher(
               SetIfValue(Extend(InitCollections(d), "tags", ParseTags(graph, ref)),
                          graph, ref, BasicFields),
               graph, ref),
             graph, ref),
           "extras", ParseExtras(graph, ref, ExtrasTable)),
    graph, ref)

\* lines 820-833: the compatibility pass and the return
ParseReturn(withResources, compat, cfg) ==
  IF ~cfg.compatibility_mode
  THEN [dict |-> withResources, exc |-> "", returned |-> TRUE]
  ELSE [dict |-> Put(withResources, "extras", compat.extras),
        exc |-> compat.exc, returned |-> compat.exc = ""]

\* lines 751-818: the resources, unless the theme loop raised
ParseAfterThemes(licensed, themes, graph, ref, cfg) ==
  IF themes.exc # ""
  THEN [dict |-> Put(licensed, "groups", themes.groups), exc |-> themes.exc,
        returned |-> FALSE]
  ELSE ParseReturn(Extend(Put(licensed, "groups", themes.groups), "resources",
                          ParseResources(graph, ref, cfg.normalize_ckan_format)),
                   CompatExtras(<<>>, licensed["extras"]), cfg)

\* lines 738-746
ParseThemes(licensed, graph, ref, cfg) ==
  ParseAfterThemes(licensed, ThemeGroups(graph, _themes(graph, ref), licensed["groups"]),
                   graph, ref, cfg)

parse_dataset(graph, d, ref, cfg) == ParseThemes(ParseFields(graph, d, ref), graph, ref, cfg)

(***************************************************************************)
(* profiles.py: reading the dataset dict and writing triples from it.      *)
(***************************************************************************)
RECURSIVE FirstExtra(_, _, _)
FirstExtra(extras, key, default) ==
  IF extras = <<>> THEN default
  ELSE IF Head(extras).key = key \/ Head(extras).key = "dcat_" \o key
       THEN Head(extras).value
       ELSE FirstExtra(Tail(extras), key, default)

ExtrasBeforeTopLevel(d, key, default) ==
  FirstExtra(GetList(d, "extras"), key, IF key \in DOMAIN d THEN d[key] ELSE default)

\* lines 440-448
_get_dict_value(d, key, default) ==
  IF key \in DOMAIN d THEN d[key] ELSE FirstExtra(GetList(d, "extras"), key, default)

_get_dataset_value(d, key) == _get_dict_value(d, key, None)

\* lines 503-508: the value of key, else of the first fallback with a value
RECURSIVE FallbackValue(_, _, _)
FallbackValue(d, value, fallbacks) ==
  IF Truthy(value) \/ fallbacks = <<>> THEN value
  ELSE FallbackValue(d, _get_dict_value(d, Head(fallbacks), None), Tail(fallbacks))

FirstKeyOnly(d, key, fallbacks) == _get_dict_value(d, key, None)

ResolvedValue(d, key, fallbacks) ==
  FallbackValue(d, _get_dict_value(d, key, None), fallbacks)

Years == {"2015"}

Months == {"06"}

Days == {"30"}

\* dateutil's parse(value, default=datetime(1, 1, 1, 0, 0, 0)) accepts the string
DateParses(chars) ==
  \/ Len(chars) = 1 /\ chars[1] \in Years
  \/ Len(chars) = 3 /\ chars[1] \in Years /\ chars[2] = "-" /\ chars[3] \in Months
  \/ Len(chars) = 5 /\ chars[1] \in Years /\ chars[2] = "-" /\ chars[3] \in Months
                    /\ chars[4] = "-" /\ chars[5] \in Days
  \/ Len(chars) = 3 /\ chars[1] \in Months /\ chars[2] = "-" /\ chars[3] \in Days

\* the parsed date: the components the string lacks come from the default
ParseDate(chars) ==
  [year |-> IF chars[1] \in Years THEN chars[1] ELSE "0001",
   month |-> IF chars[1] \in Months THEN chars[1]
             ELSE IF Len(chars) >= 3 THEN chars[3] ELSE "01",
   day |-> IF chars[1] \in Months THEN chars[3]
           ELSE IF Len(chars) = 5 THEN chars[5] ELSE "01"]

\* _date.isoformat()
IsoFormat(date) == <<date.year, "-", date.month, "-", date.day, "T", "00:00:00">>

DateTripleAlwaysTyped(graph, subject, predicate, value) ==
  IF ~Truthy(value) THEN [g |-> graph, exc |-> ""]
  ELSE [g |-> Add(graph, <<subject, predicate,
                           Lit(IF DateParses(value[2]) THEN IsoFormat(ParseDate(value[2]))
                               ELSE value[2],
                               "xsd:dateTime", "")>>),
        exc |-> ""]

\* lines 556-565
_add_date_triple(graph, subject, predicate, value) ==
  IF ~Truthy(value) THEN [g |-> graph, exc |-> ""]
  ELSE IF ~IsStr(value) THEN [g |-> graph, exc |-> "TypeError"]
  ELSE IF DateParses(value[2])
  THEN [g |-> Add(graph, <<subject, predicate,
                           Lit(IsoFormat(ParseDate(value[2])), "xsd:dateTime", "")>>),
        exc |-> ""]
  ELSE [g |-> Add(graph, <<subject, predicate, Literal(value[2])>>), exc |-> ""]

\* lines 503-516 with date_value=True
AddDateFromDict(graph, d, subject, predicate, key, fallbacks) ==
  _add_date_triple(graph, subject, predicate, ResolvedValue(d, key, fallbacks))

(***************************************************************************)
(* RDFProfile._add_list_triple and _add_triple_from_dict                   *)
(***************************************************************************)
\* a Python list of values
L(items) == <<"list", items>>

IsList(v) == v[1] = "list"

IsNumber(chars) == chars # <<>> /\ \A i \in 1..Len(chars) : chars[i] \in Digits

\* json.loads(value) of one list element: a string or an integer
JsonElement(chars) ==
  IF IsQuoted(chars) THEN S(SubSeq(chars, 2, Len(chars) - 1)) ELSE <<"number", chars>>

\* what json.loads(value) does with the text: the kind of value it returns,
\* or "ValueError"
JsonKind(chars) ==
  IF IsJsonList(chars)
  THEN IF \A i \in 1..Len(JsonPieces(chars)) :
            IsQuoted(JsonPieces(chars)[i]) \/ IsNumber(JsonPieces(chars)[i])
       THEN "list" ELSE "ValueError"
  ELSE IF IsNumber(chars) THEN "number"
  ELSE IF chars = <<"true">> \/ chars = <<"false">> THEN "bool"
  ELSE IF chars = <<"null">> THEN "null"
  ELSE IF IsQuoted(chars) /\ ~Contains(SubSeq(chars, 2, Len(chars) - 1), "\"") THEN "string"
  ELSE "ValueError"

\* _type(item): Literal of a string, an integer or a boolean, or URIRef
TermOf(item, _type) ==
  IF _type = "URIRef" THEN URIRef(item[2])
  ELSE IF item[1] = "number" THEN Lit(item[2], "xsd:integer", "")
  ELSE IF item[1] = "bool" THEN Lit(item[2], "xsd:boolean", "")
  ELSE Literal(item[2])

\* lines 530-542 for a string value: the items the loop of line 544 walks over.
\* A JSON string is not wrapped, so the loop walks over its characters; null
\* is handled by the caller (iterating None raises TypeError).
ItemsOfString(chars) ==
  CASE JsonKind(chars) = "list" ->
         [i \in 1..Len(JsonPieces(chars)) |-> JsonElement(JsonPieces(chars)[i])]
    [] JsonKind(chars) = "number" -> <<<<"number", chars>>>>
    [] JsonKind(chars) = "bool" -> <<<<"bool", chars>>>>
    [] JsonKind(chars) = "string" ->
         [i \in 1..(Len(chars) - 2) |-> S(<<chars[i + 1]>>)]
    [] JsonKind(chars) = "null" -> <<>>
    [] OTHER -> IF Contains(chars, ",")
                THEN [i \in 1..Len(Split(chars)) |-> S(Split(chars)[i])]
                ELSE <<S(chars)>>

\* lines 544-545
AddItems(graph, subject, predicate, items, _type) ==
  AddAll(graph, [i \in 1..Len(items) |-> <<subject, predicate, TermOf(items[i], _type)>>])

\* lines 518-545; a value that is neither a list nor a string adds nothing
_add_list_triple(graph, subject, predicate, value, _type) ==
  IF IsList(value)
  THEN [g |-> AddItems(graph, subject, predicate, value[2], _type), exc |-> ""]
  ELSE IF ~IsStr(value) THEN [g |-> graph, exc |-> ""]
  ELSE IF JsonKind(value[2]) = "null" THEN [g |-> graph, exc |-> "TypeError"]
  ELSE [g |-> AddItems(graph, subject, predicate, ItemsOfString(value[2]), _type), exc |-> ""]

\* lines 485-516; mode is "list" (list_value), "date" (date_value) or "text"
_add_triple_from_dict(graph, d, subject, predicate, key, fallbacks, mode, _type) ==
  IF ~Truthy(ResolvedValue(d, key, fallbacks)) THEN [g |-> graph, exc |-> ""]
  ELSE IF mode = "list"
  THEN _add_list_triple(graph, subject, predicate, ResolvedValue(d, key, fallbacks), _type)
  ELSE IF mode = "date"
  THEN _add_date_triple(graph, subject, predicate, ResolvedValue(d, key, fallbacks))
  ELSE [g |-> Add(graph, <<subject, predicate,
                           TermOf(ResolvedValue(d, key, fallbacks), _type)>>),
        exc |-> ""]

(***************************************************************************)
(* ckanext.iaest.utils                                                     *)
(***************************************************************************)
catalog_uri == <<"http://catalog">>

resource_uri(resource_dict) ==
  IF Truthy(Get(resource_dict, "uri")) /\ Get(resource_dict, "uri") # S(<<"None">>)
  THEN Get(resource_dict, "uri")[2]
  ELSE catalog_uri \o <<"/resource/">> \o UnicodeOf(Get(resource_dict, "id"))[2]

(***************************************************************************)
(* EuropeanDCATAPProfile.graph_from_dataset: the graph as the call leaves  *)
(* it and the exception that escapes ("" for none).  Blank nodes are named *)
(* after the variable that holds them.                                     *)
(***************************************************************************)
Names == <<"1", "2", "3", "4">>

\* Literal(value, lang='es'): unicode(None) is 'None'
LiteralEs(v) == Lit(UnicodeOf(v)[2], "", "es")

AnyURI(chars) == Lit(chars, "xsd:anyURI", "")

\* lines 844-854: type, title, description
TitleTriples(d, ref) ==
  <<<<ref, "rdf:type", URIRef(<<"dcat:Dataset">>)>>,
    <<ref, "dct:title", LiteralEs(Get(d, "title"))>>,
    <<ref, "dct:description", LiteralEs(Get(d, "notes"))>>>>

\* lines 859-870: themes, keywords, identifier
ThemeTriples(d, ref) ==
  [i \in 1..Len(GetList(d, "groups")) |->
        <<ref, "dcat:theme", Literal(d["groups"][i]["display_name"][2])>>]
  \o [i \in 1..Len(GetList(d, "tags")) |->
        <<ref, "dcat:keyword", LiteralEs(d["tags"][i].name)>>]
  \o <<<<ref, "dct:identifier",
         AnyURI(catalog_uri \o <<"/catalogo/">> \o UnicodeOf(Get(d, "name"))[2])>>>>

\* lines 879-887
PublisherTriple(d, ref) ==
  <<ref, "dct:publisher",
    URIRef(catalog_uri \o <<"/catalogo/">> \o UnicodeOf(Get(d["organization"][2], "name"))[2])>>

\* lines 891-905
LicenseAndSpatialTriples(d, ref) ==
  <<<<ref, "dct:license", URIRef(d["license_url"][2])>>,
    <<BNode(<<"spatial">>), "dct:title", Lit(<<"aragon">>, "", "es")>>,
    <<BNode(<<"spatial">>), "aragodef:ComunidadAutonoma", Lit(<<"aragon2">>, "", "es")>>,
    <<BNode(<<"spatial">>), "rdf:resource",
      Literal(<<"http://opendata.aragon.es/recurso/territorio/ComunidadAutonoma/Aragon?api_key=e103dc13eb276ad734e680f5855f20c6">>)>>,
    <<ref, "dct:spatial", BNode(<<"spatial">>)>>>>

InstantTriples(extent, predicate, node, instant, value) ==
  IF ~Truthy(value) THEN <<>>
  ELSE <<<<extent, predicate, BNode(<<node>>)>>,
         <<BNode(<<node>>), "time:Instant", BNode(<<instant>>)>>,
         <<BNode(<<instant>>), "time:inXSDDate", Lit(value[2], "xsd:date", "")>>>>

\* lines 909-934
TemporalTriples(d, ref) ==
  LET start == _get_dataset_value(d, "TemporalFrom")
      end == _get_dataset_value(d, "TemporalUntil")
  IN IF ~(Truthy(start) \/ Truthy(end)) THEN <<>>
     ELSE <<<<BNode(<<"temporal_extent">>), "time:Interval", BNode(<<"timeinterval_extent">>)>>,
            <<BNode(<<"timeinterval_extent">>), "rdf:type", URIRef(<<"dct:PeriodOfTime">>)>>>>
          \o InstantTriples(BNode(<<"timeinterval_extent">>), "time:hasBeginning",
                            "hasBeginning", "instant_begin", start)
          \o InstantTriples(BNode(<<"timeinterval_extent">>), "time:hasEnd",
                            "hasEnd", "instant_end", end)
          \o <<<<ref, "dct:temporal", BNode(<<"temporal_extent">>)>>>>

\* lines 937-956
ReferenceTriples(d, ref) ==
  LET granularity == _get_dataset_value(d, "Granularity")
      data_dictionary == _get_dataset_value(d, "Data Dictionary")
      data_dictionary_url == _get_dataset_value(d, "Data Dictionary URL0")
  IN (IF ~Truthy(granularity) THEN <<>>
      ELSE <<<<BNode(<<"ref_granularity_extent">>), "rdfs:label", Lit(<<"Granularity">>, "", "es")>>,
             <<BNode(<<"ref_granularity_extent">>), "rdfs:value", LiteralEs(granularity)>>,
             <<ref, "dct:references", BNode(<<"ref_granularity_extent">>)>>>>)
     \o
     (IF ~(Truthy(data_dictionary) /\ Truthy(data_dictionary_url)) THEN <<>>
      ELSE <<<<BNode(<<"ref_dictionary_extent">>), "rdfs:label", Lit(<<"Data Dictionary">>, "", "es")>>,
             <<BNode(<<"ref_dictionary_extent">>), "rdfs:value", LiteralEs(data_dictionary)>>,
             <<BNode(<<"ref_dictionary_extent">>), "rdf:resource", Literal(data_dictionary_url[2])>>,
             <<ref, "dct:references", BNode(<<"ref_dictionary_extent">>)>>>>)

UrlTriplesOneOfBoth(distribution, resource_dict) ==
  IF Truthy(Get(resource_dict, "download_url"))
  THEN <<<<distribution, "dcat:downloadURL", AnyURI(Get(resource_dict, "download_url")[2])>>>>
  ELSE IF Truthy(Get(resource_dict, "url"))
  THEN <<<<distribution, "dcat:accessURL", AnyURI(Get(resource_dict, "url")[2])>>>>
  ELSE <<>>

\* lines 980-985
UrlTriples(distribution, resource_dict) ==
  LET url == Get(resource_dict, "url")
      download_url == Get(resource_dict, "download_url")
  IN (IF Truthy(download_url)
      THEN <<<<distribution, "dcat:downloadURL", AnyURI(download_url[2])>>>> ELSE <<>>)
     \o
     (IF (Truthy(url) /\ ~Truthy(download_url)) \/ (Truthy(url) /\ url # download_url)
      THEN <<<<distribution, "dcat:accessURL", AnyURI(url[2])>>>> ELSE <<>>)

\* lines 988-1000
FormatTriples(distribution, resource_dict, i) ==
  IF ~Truthy(Get(resource_dict, "format")) THEN <<>>
  ELSE <<<<BNode(<<"mediatype_extent", Names[i]>>), "rdfs:value",
           Literal(UnicodeOf(Get(resource_dict, "mimetype_inner"))[2])>>,
         <<BNode(<<"mediatype_extent", Names[i]>>), "rdfs:label",
           Literal(Get(resource_dict, "format")[2])>>,
         <<BNode(<<"format_extent", Names[i]>>), "dct:MediaType",
           BNode(<<"mediatype_extent", Names[i]>>)>>,
         <<distribution, "dct:format", BNode(<<"format_extent", Names[i]>>)>>>>

\* line 964: the predicate that links the dataset to a distribution
DistributionLink == "dcat:Distribution"

\* lines 960-1000, for one resource
ResourceTriples(ref, resource_dict, i) ==
  LET distribution == URIRef(resource_uri(resource_dict))
  IN <<<<ref, DistributionLink, distribution>>,
       <<distribution, "dct:identifier", AnyURI(resource_uri(resource_dict))>>,
       <<distribution, "dct:title", LiteralEs(Get(resource_dict, "name"))>>,
       <<distribution, "dct:description", LiteralEs(Get(resource_dict, "description"))>>>>
     \o UrlTriples(distribution, resource_dict)
     \o FormatTriples(distribution, resource_dict, i)

RECURSIVE AllResourceTriples(_, _, _)
AllResourceTriples(ref, resources, i) ==
  IF i > Len(resources) THEN <<>>
  ELSE ResourceTriples(ref, resources[i], i) \o AllResourceTriples(ref, resources, i + 1)

graph_from_dataset(graph, d, ref) ==
  LET titled == AddAll(graph, TitleTriples(d, ref))
      headed == AddAll(titled, ThemeTriples(d, ref))
      issued == AddDateFromDict(headed, d, ref, "dct:issued", "issued", <<"metadata_created">>)
      modified == AddDateFromDict(issued.g, d, ref, "dct:modified", "modified",
                                  <<"metadata_modified">>)
  IN IF "groups" \notin DOMAIN d
     THEN [g |-> titled, exc |-> "TypeError"]
     ELSE IF \E i \in 1..Len(d["groups"]) : "display_name" \notin DOMAIN d["groups"][i]
     THEN [g |-> titled, exc |-> "KeyError"]
     ELSE IF issued.exc # "" THEN issued
     ELSE IF modified.exc # "" THEN modified
     ELSE IF "organization" \notin DOMAIN d
     THEN [g |-> modified.g, exc |-> "KeyError"]
     ELSE IF ~IsDict(d["organization"])
     THEN [g |-> modified.g, exc |-> "TypeError"]
     ELSE IF "name" \notin DOMAIN d["organization"][2]
     THEN [g |-> modified.g, exc |-> "KeyError"]
     ELSE IF ~IsStr(Get(d, "license_url"))
     THEN [g |-> Add(modified.g, PublisherTriple(d, ref)), exc |-> "TypeError"]
     ELSE [g |-> AddAll(modified.g,
                        <<PublisherTriple(d, ref)>>
                        \o LicenseAndSpatialTriples(d, ref)
                        \o TemporalTriples(d, ref)
                        \o ReferenceTriples(d, ref)
                        \o AllResourceTriples(ref, GetList(d, "resources"), 1)),
           exc |-> ""]

(***************************************************************************)
(* Inputs of the converters: IAEST JSON dicts and CKAN package dicts.      *)
(* Each family varies one part of the dict around a base value.            *)
(***************************************************************************)
Absent == <<"absent">>

\* a dict with key k, or without it when v is Absent
Opt(k, v) == IF v = Absent THEN EmptyDict ELSE (k :> v)

ByteSizeChars == {"0", "1", "a"}

ByteSizes ==
  {S(chars) : chars \in SeqsUpTo(ByteSizeChars, MaxDigits)} \cup {Absent, None, I(0), I(120)}

\* distributions that differ in their byteSize
SizedDistributions ==
  {Opt("byteSize", b) @@ [title |-> S(<<"D">>), accessURL |-> S(<<"http://x">>)] :
     b \in ByteSizes}

\* distributions that differ in their URLs and format
LinkedDistributions ==
  {Opt("downloadURL", dl) @@ Opt("accessURL", ac) @@ Opt("format", f)
     @@ [description |-> S(<<"about D">>), byteSize |-> S(<<"1">>)] :
     dl \in {Absent, S(<<>>), S(<<"http://dl">>)},
     ac \in {Absent, S(<<"http://x">>)},
     f \in {Absent, S(<<"CSV">>)}}

LanguageStrings == {S(<<"es">>), S(<<"en">>), S(<<"e", ",", "s">>), S(<<>>)}

Publishers ==
  {Absent, None, S(<<"IAEST">>), S(<<>>), D(EmptyDict),
   D([name |-> S(<<"IAEST">>)]), D([mbox |-> S(<<"m@x">>)]),
   D([name |-> S(<<"IAEST">>), mbox |-> S(<<"m@x">>)]),
   D([name |-> S(<<>>), mbox |-> S(<<"m@x">>)])}

Keywords == {S(<<"a">>), S(<<"b">>)}

IaestBase == [title |-> S(<<"T">>), identifier |-> S(<<"id1">>)]

IaestDicts ==
  {Put(IaestBase, "distribution", ds) : ds \in SeqsUpTo(LinkedDistributions, MaxLen)}
  \cup
  {Put(IaestBase, "distribution", before \o <<d>> \o after) :
     d \in SizedDistributions,
     before \in {<<>>, <<[title |-> S(<<"first">>), byteSize |-> I(7)]>>},
     after \in {<<>>, <<[title |-> S(<<"last">>), byteSize |-> S(<<"a">>)]>>}}
  \cup
  {Opt("title", t) @@ Opt("description", n) @@ Opt("landingPage", u)
     @@ Opt("issued", i) @@ Opt("modified", i) @@ Opt("identifier", u) :
     t \in {Absent, S(<<"T">>)}, n \in {Absent, None, S(<<"N">>)},
     u \in {Absent, S(<<"http://l">>)}, i \in {Absent, S(<<"2015">>)}}
  \cup
  {Opt("publisher", p) @@ Opt("language", l) @@ IaestBase :
     p \in Publishers, l \in {Absent} \cup SeqsUpTo(LanguageStrings, MaxLen)}
  \cup
  {Put(IaestBase, "keyword", ks) : ks \in SeqsUpTo(Keywords, MaxLen)}

Sizes == {Absent, None, I(0), I(1), I(120)}

Resources ==
  {Opt("size", z) @@ [name |-> S(<<"R">>), url |-> S(<<"http://x">>)] : z \in Sizes}
  \cup
  {Opt("url", u) @@ Opt("format", f) @@ Opt("license", l)
     @@ [description |-> S(<<"about R">>), size |-> I(1)] :
     u \in {Absent, S(<<>>), S(<<"http://x">>)},
     f \in {Absent, S(<<"CSV">>)},
     l \in {Absent, S(<<"odc-by">>)}}

RecognizedKeys ==
  {"iaest_issued", "iaest_modified", "guid", "iaest_publisher_name",
   "iaest_publisher_email", "language"}

ExtraEntries ==
  {[key |-> k, value |-> v] :
     k \in RecognizedKeys \ {"language"}, v \in {S(<<"v">>), S(<<>>)}}
  \cup
  {[key |-> "language", value |-> S(c)] :
     c \in {<<>>, <<"es">>, <<"es", ",", "en">>}}

Maintainers ==
  {Opt("maintainer", m) @@ Opt("maintainer_email", e) :
     m \in {Absent, S(<<>>), S(<<"M">>)}, e \in {Absent, S(<<>>), S(<<"m@y">>)}}

PackageBase == [title |-> S(<<"T">>), tags |-> <<[name |-> S(<<"a">>)]>>]

PackageDicts ==
  {Put(PackageBase, "resources", rs) : rs \in SeqsUpTo(Resources, MaxLen)}
  \cup
  {Opt("title", t) @@ Opt("notes", n) @@ Opt("url", u)
     @@ [tags |-> TagsOf(ks), license_id |-> S(<<"odc-by">>)] :
     t \in {Absent, S(<<"T">>)}, n \in {Absent, None, S(<<"N">>)},
     u \in {Absent, S(<<"http://l">>)}, ks \in SeqsUpTo(Keywords, MaxLen)}
  \cup
  {m @@ Put(PackageBase, "extras", es) :
     m \in Maintainers, es \in SeqsUpTo(ExtraEntries, MaxLen)}

(***************************************************************************)
(* The converter calls.  calls is the sequence of calls made so far; a     *)
(* second call converts the first call's result back.                      *)
(***************************************************************************)
IdleProfile ==
  /\ g = <<>>
  /\ dataset_dict = EmptyDict
  /\ config = DefaultConfig
  /\ exc = ""
  /\ results = <<>>

InitConv ==
  /\ calls = <<>>
  /\ input \in {[kind |-> "iaest", value |-> d] : d \in IaestDicts}
          \cup {[kind |-> "ckan", value |-> p] : p \in PackageDicts}
  /\ iaest_dict = IF input.kind = "iaest" THEN input.value ELSE EmptyDict
  /\ package_dict = IF input.kind = "ckan" THEN input.value ELSE EmptyDict
  /\ IdleProfile

call_iaest_to_ckan ==
  /\ Len(calls) < 2
  /\ IF calls = <<>> THEN input.kind = "iaest" ELSE Last(calls) = "ckan_to_iaest"
  /\ package_dict' = iaest_to_ckan(iaest_dict)
  /\ calls' = Append(calls, "iaest_to_ckan")
  /\ UNCHANGED <<results, iaest_dict, g, dataset_dict, config, exc, input>>

call_ckan_to_iaest ==
  /\ Len(calls) < 2
  /\ IF calls = <<>> THEN input.kind = "ckan" ELSE Last(calls) = "iaest_to_ckan"
  /\ iaest_dict' = ckan_to_iaest(package_dict)
  /\ calls' = Append(calls, "ckan_to_iaest")
  /\ UNCHANGED <<results, package_dict, g, dataset_dict, config, exc, input>>

NextConv == call_iaest_to_ckan \/ call_ckan_to_iaest

SpecConv == InitConv /\ [][NextConv]_vars

(***************************************************************************)
(* Inputs of the profile: graphs to parse and dataset dicts to serialize.  *)
(***************************************************************************)
NoRepeat(list) == \A i, j \in 1..Len(list) : i # j => list[i] # list[j]

\* keywords with and without commas, with blanks around fragments and with
\* empty fragments
KeywordStrings ==
  {<<"a">>, <<"b">>, <<"c">>, <<"a", " ", "b">>,
   <<"a", ",", "b">>, <<"a", ",", " ", "b">>, <<" ", "a", " ", ",", "b">>,
   <<"c", ",", "a">>, <<"a", ",">>, <<",">>, <<"a", ",", "b", ",", "c">>}

KeywordLists == {l \in SeqsUpTo(KeywordStrings, MaxLen) : NoRepeat(l)}

DatasetTriples(props) ==
  [i \in 1..Len(props) |-> <<dataset_ref, props[i][1], props[i][2]>>]

KeywordGraphs ==
  {DatasetTriples([i \in 1..Len(ks) |-> <<"dcat:keyword", Literal(ks[i])>>]) :
     ks \in KeywordLists}

OptTriple(subject, predicate, object) ==
  IF object = Absent THEN <<>> ELSE <<<<subject, predicate, object>>>>

PublisherShapes ==
  {<<>>,
   <<<<dataset_ref, "dct:publisher", BNode(<<"pub">>)>>,
     <<BNode(<<"pub">>), "dct:title", Literal(<<"Instituto">>)>>,
     <<BNode(<<"pub">>), "foaf:homepage", URIRef(<<"http://pub">>)>>>>,
   <<<<dataset_ref, "dct:publisher", URIRef(<<"http://org/1">>)>>>>,
   <<<<dataset_ref, "dct:publisher", BNode(<<"pub">>)>>,
     <<BNode(<<"pub">>), "foaf:name", Literal(<<"Instituto">>)>>,
     <<BNode(<<"pub">>), "foaf:mbox", Literal(<<"p@x">>)>>,
     <<BNode(<<"pub">>), "dct:type", URIRef(<<"http://type">>)>>>>,
   <<<<dataset_ref, "dct:publisher", URIRef(<<"http://org/1">>)>>,
     <<URIRef(<<"http://org/1">>), "dct:title", Literal(<<"Primero">>)>>,
     <<dataset_ref, "dct:publisher", BNode(<<"pub">>)>>,
     <<BNode(<<"pub">>), "foaf:homepage", URIRef(<<"http://pub">>)>>>>}

LicenseShapes ==
  {<<>>,
   <<<<dataset_ref, "dct:license", Literal(<<"cc-by">>)>>>>,
   <<<<dataset_ref, "dct:license", URIRef(<<"cc0">>)>>>>,
   <<<<dataset_ref, "dct:license", URIRef(<<"http://creativecommons.org/licenses/by/4.0/">>)>>>>,
   <<<<dataset_ref, "dct:license", Literal(<<"CC-BY">>)>>>>,
   <<<<dataset_ref, "dct:license", URIRef(<<"cc0">>)>>,
     <<dataset_ref, "dct:license", Literal(<<"cc-by">>)>>>>,
   <<<<dataset_ref, "dct:license", Literal(<<"unknown">>)>>,
     <<dataset_ref, "dct:license", Literal(<<"cc-by">>)>>>>}

FieldGraphs ==
  {OptTriple(dataset_ref, "dct:title", t)
   \o OptTriple(dataset_ref, "dcat:landingPage", l)
   \o OptTriple(dataset_ref, "owl:versionInfo", v)
   \o OptTriple(dataset_ref, "adms:version", a)
   \o OptTriple(dataset_ref, "dcat:author_email", e)
   \o p \o c :
     t \in {Absent, Literal(<<"T">>)},
     l \in {Absent, URIRef(<<"http://landing">>)},
     v \in {Absent, Literal(<<"1.0">>)},
     a \in {Absent, Literal(<<"0.9">>)},
     e \in {Absent, Literal(<<"a@x">>)},
     p \in PublisherShapes, c \in LicenseShapes}

ThemeNode(i) == BNode(<<"theme", Names[i]>>)

\* a theme node: without identifier, with the id or the name of a group, or unknown
ThemeKinds == {Absent, Literal(<<"g-1">>), Literal(<<"salud">>), Literal(<<"nope">>)}

ThemeTriplesOf(kinds) ==
  [i \in 1..Len(kinds) |-> <<dataset_ref, "dcat:theme", ThemeNode(i)>>]
  \o [i \in 1..Len(Names) |->
        IF i <= Len(kinds) /\ kinds[i] # Absent
        THEN <<ThemeNode(i), "dct:identifier", kinds[i]>>
        ELSE <<dataset_ref, "rdf:type", URIRef(<<"dcat:Dataset">>)>>]

DistNode(i, bnode) ==
  IF bnode THEN BNode(<<"dist", Names[i]>>) ELSE URIRef(<<"http://catalog/dist/", Names[i]>>)

\* a distribution with a title, an access URL and a download URL, each optional
UrlKinds == [bnode : BOOLEAN, title : BOOLEAN, access : BOOLEAN, download : BOOLEAN]

UrlDistribution(i, k) ==
  <<<<dataset_ref, "dcat:distribution", DistNode(i, k.bnode)>>>>
  \o (IF k.title THEN <<<<DistNode(i, k.bnode), "dct:title", Literal(<<"D", Names[i]>>)>>>>
      ELSE <<>>)
  \o (IF k.access
      THEN <<<<DistNode(i, k.bnode), "dcat:accessURL", URIRef(<<"http://access/", Names[i]>>)>>>>
      ELSE <<>>)
  \o (IF k.download
      THEN <<<<DistNode(i, k.bnode), "dcat:downloadURL", URIRef(<<"http://download/", Names[i]>>)>>>>
      ELSE <<>>)

RECURSIVE UrlDistributions(_, _)
UrlDistributions(kinds, i) ==
  IF i > Len(kinds) THEN <<>>
  ELSE UrlDistribution(i, kinds[i]) \o UrlDistributions(kinds, i + 1)

Rest ==
  {<<>>,
   <<<<dataset_ref, "dct:title", Literal(<<"T">>)>>,
     <<dataset_ref, "dcat:keyword", Literal(<<"a">>)>>,
     <<dataset_ref, "dct:license", Literal(<<"cc0">>)>>,
     <<dataset_ref, "dcat:tema_estadistico", Literal(<<"tema">>)>>>>
   \o UrlDistribution(4, [bnode |-> FALSE, title |-> TRUE, access |-> TRUE, download |-> FALSE])}

ThemeGraphs ==
  {r \o AddAll(<<>>, ThemeTriplesOf(kinds)) : r \in Rest, kinds \in SeqsUpTo(ThemeKinds, MaxLen)}

UrlGraphs == {UrlDistributions(kinds, 1) : kinds \in SeqsUpTo(UrlKinds, MaxLen)}

FormatNode == BNode(<<"fmt">>)

FormatLabels == {<<"CSV">>, <<"csv">>, <<"JSON">>, <<"atom">>, <<"XLS">>}

MediaTypes == {<<"text", "/", "csv">>, <<"application", "/", "json">>, <<"application", "/", "zip">>}

\* the dct:format of a distribution: a literal, or a node typed dct:IMT or not
FormatShapes ==
  {<<>>}
  \cup {<<<<DistNode(1, FALSE), "dct:format", Literal(f)>>>> : f \in FormatLabels \cup MediaTypes}
  \cup {<<<<DistNode(1, FALSE), "dct:format", FormatNode>>>>
        \o OptTriple(FormatNode, "rdf:type", t)
        \o OptTriple(FormatNode, "rdf:value", v)
        \o OptTriple(FormatNode, "rdfs:label", l) :
          t \in {Absent, URIRef(<<"dct:IMT">>)},
          v \in {Absent, Literal(<<"text", "/", "csv">>)},
          l \in {Absent, Literal(<<"JSON">>), Literal(<<"XLS">>)}}

FormatGraphs ==
  {<<<<dataset_ref, "dcat:distribution", DistNode(1, FALSE)>>>>
   \o OptTriple(DistNode(1, FALSE), "dcat:mediaType", m) \o f :
     m \in {Absent} \cup {Literal(t) : t \in MediaTypes}, f \in FormatShapes}

ChecksumNode(i) == BNode(<<"checksum", Names[i]>>)

ChecksumKinds == [algorithm : BOOLEAN, value : BOOLEAN]

ChecksumTriples(i, k) ==
  <<<<DistNode(1, FALSE), "spdx:checksum", ChecksumNode(i)>>>>
  \o (IF k.algorithm
      THEN <<<<ChecksumNode(i), "spdx:algorithm", URIRef(<<"sha", Names[i]>>)>>>> ELSE <<>>)
  \o (IF k.value
      THEN <<<<ChecksumNode(i), "spdx:checksumValue", Literal(<<"hash", Names[i]>>)>>>> ELSE <<>>)

RECURSIVE Checksums(_, _)
Checksums(kinds, i) ==
  IF i > Len(kinds) THEN <<>> ELSE ChecksumTriples(i, kinds[i]) \o Checksums(kinds, i + 1)

DetailGraphs ==
  {<<<<dataset_ref, "dcat:distribution", DistNode(1, FALSE)>>>>
   \o OptTriple(DistNode(1, FALSE), "dcat:byteSize", b) \o Checksums(kinds, 1) :
     b \in {Absent, Literal(<<"1", "2", "0">>), Literal(<<"0">>), Literal(<<"a">>)},
     kinds \in SeqsUpTo(ChecksumKinds, MaxLen)}

\* a dct:Location node and its geometries
LocationNode == BNode(<<"location">>)

WktPoints == <<"1 2", "3 4", "5 6", "7 8">>

GeometryKinds == {"geojson", "untyped", "broken", "wkt", "brokenwkt"}

Geometry(i, kind) ==
  CASE kind = "geojson" ->
         Lit(<<"{", "\"type\": \"Point\", \"coordinates\": [", Names[i], ", 0]", "}">>,
             GEOJSON_IMT, "")
    [] kind = "untyped" ->
         Lit(<<"{", "\"type\": \"Point\", \"coordinates\": [", Names[i], ", 9]", "}">>, "", "")
    [] kind = "broken" -> Lit(<<"{", "\"type\": ", Names[i]>>, GEOJSON_IMT, "")
    [] kind = "wkt" -> Lit(<<"POINT", "(", WktPoints[i], ")">>, WktLiteral, "")
    [] kind = "brokenwkt" -> Lit(<<"POINT", Names[i]>>, WktLiteral, "")

LocationTriples(node) ==
  <<<<dataset_ref, "dct:spatial", node>>, <<node, "rdf:type", URIRef(<<"dct:Location">>)>>>>

LocationGraph(kinds) ==
  LocationTriples(LocationNode)
  \o [i \in 1..Len(kinds) |-> <<LocationNode, "locn:geometry", Geometry(i, kinds[i])>>]

PlaceNode == URIRef(<<"http://geo/aragon">>)

SpatialGraphs ==
  {LocationGraph(kinds) : kinds \in SeqsUpTo(GeometryKinds, MaxLen)}
  \cup
  {<<<<dataset_ref, "dct:spatial", PlaceNode>>>>,
   <<<<dataset_ref, "dct:spatial", Literal(<<"Aragon">>)>>>>,
   LocationTriples(PlaceNode)
     \o <<<<PlaceNode, "skos:prefLabel", Literal(<<"Aragon">>)>>,
          <<PlaceNode, "rdfs:label", Literal(<<"Aragon (label)">>)>>,
          <<PlaceNode, "locn:geometry", Geometry(1, "wkt")>>>>,
   <<<<dataset_ref, "dct:spatial", PlaceNode>>,
     <<PlaceNode, "locn:geometry", Geometry(1, "geojson")>>>>,
   LocationTriples(PlaceNode)
     \o <<<<PlaceNode, "locn:geometry", Geometry(1, "geojson")>>>>
     \o LocationGraph(<<"wkt", "geojson">>),
   LocationTriples(PlaceNode)
     \o <<<<PlaceNode, "locn:geometry", URIRef(<<"http://geo/aragon/geometry">>)>>>>}

\* the interval objects of dct:temporal
IntervalNode(i) == BNode(<<"interval", Names[i]>>)

IntervalKinds ==
  [schema : {"none", "end", "both", "empty"}, w3c : {"none", "start", "both"}]

IntervalTriples(i, k) ==
  <<<<dataset_ref, "dct:temporal", IntervalNode(i)>>>>
  \o (IF k.schema = "both"
      THEN <<<<IntervalNode(i), "schema:startDate", Literal(<<"2001-01-0", Names[i]>>)>>>>
      ELSE IF k.schema = "empty"
      THEN <<<<IntervalNode(i), "schema:startDate", Literal(<<>>)>>>>
      ELSE <<>>)
  \o (IF k.schema \in {"end", "both"}
      THEN <<<<IntervalNode(i), "schema:endDate", Literal(<<"2002-01-0", Names[i]>>)>>>>
      ELSE <<>>)
  \o (IF k.w3c \in {"start", "both"}
      THEN <<<<IntervalNode(i), "time:hasBeginning", BNode(<<"beginning", Names[i]>>)>>,
             <<BNode(<<"beginning", Names[i]>>), "time:inXSDDateTime",
               Literal(<<"2003-01-0", Names[i]>>)>>>>
      ELSE <<>>)
  \o (IF k.w3c = "both"
      THEN <<<<IntervalNode(i), "time:hasEnd", BNode(<<"end", Names[i]>>)>>,
             <<BNode(<<"end", Names[i]>>), "time:inXSDDateTime",
               Literal(<<"2004-01-0", Names[i]>>)>>>>
      ELSE <<>>)

RECURSIVE Intervals(_, _)
Intervals(kinds, i) ==
  IF i > Len(kinds) THEN <<>> ELSE IntervalTriples(i, kinds[i]) \o Intervals(kinds, i + 1)

IntervalGraphs == {Intervals(kinds, 1) : kinds \in SeqsUpTo(IntervalKinds, MaxLen)}

\* dataset nodes with some of the predicates of the extras table, written in
\* the reverse of the table's order
ExtrasGraphs ==
  {OptTriple(dataset_ref, "dcat:uri_aragopedia", u)
   \o OptTriple(dataset_ref, "dcat:language", l)
   \o OptTriple(dataset_ref, "dcat:granularity", gr)
   \o OptTriple(dataset_ref, "dcat:urlDictionary", d)
   \o OptTriple(dataset_ref, "dcat:urlDictionary", d2)
   \o OptTriple(dataset_ref, "dcat:tema_estadistico", t) :
     u \in {Absent, URIRef(<<"http://aragopedia/1">>)},
     l \in {Absent, Literal(<<"es">>)},
     gr \in {Absent, Literal(<<>>), Literal(<<"month">>)},
     d \in {Absent, Literal(<<>>), URIRef(<<"http://dictionary/1">>)},
     d2 \in {Absent, URIRef(<<"http://dictionary/2">>)},
     t \in {Absent, Literal(<<"tema">>)}}

\* what the dict passed to parse_dataset may already hold
PriorDicts ==
  {EmptyDict,
   [name |-> S(<<"d1">>), owner_org |-> S(<<"org">>)],
   [name |-> S(<<"d1">>), title |-> S(<<"old title">>), version |-> S(<<"0.1">>),
    url |-> S(<<"http://old">>), license_id |-> S(<<"old-license">>),
    tags |-> <<[name |-> S(<<"old">>)]>>,
    extras |-> <<[key |-> "old", value |-> S(<<"old">>)]>>,
    resources |-> <<[url |-> S(<<"http://old">>)]>>,
    groups |-> <<[id |-> S(<<"g-old">>)]>>]}

ParseScenarios ==
  [kind : {"graph"}, g : KeywordGraphs \cup UrlGraphs \cup DetailGraphs \cup FieldGraphs
                          \cup SpatialGraphs \cup IntervalGraphs,
   dict : {EmptyDict}, config : {DefaultConfig}]
  \cup
  [kind : {"graph"}, g : ThemeGraphs, dict : PriorDicts, config : {DefaultConfig}]
  \cup
  [kind : {"graph"}, g : FormatGraphs, dict : {EmptyDict},
   config : [compatibility_mode : {FALSE}, normalize_ckan_format : BOOLEAN]]
  \cup
  [kind : {"graph"}, g : ExtrasGraphs, dict : PriorDicts,
   config : [compatibility_mode : BOOLEAN, normalize_ckan_format : {TRUE}]]

DateStrings ==
  {<<"2015">>, <<"2015", "-", "06">>, <<"2015", "-", "06", "-", "30">>,
   <<"06", "-", "30">>, <<"unknown">>, <<"2015", "-", "unknown">>}

SerializeBase ==
  [name |-> S(<<"d1">>), title |-> S(<<"T">>), notes |-> S(<<"N">>),
   organization |-> D([name |-> S(<<"iaest">>)]),
   license_url |-> S(<<"http://license">>),
   groups |-> <<[id |-> S(<<"g-1">>), display_name |-> S(<<"Economia">>)]>>,
   tags |-> <<[name |-> S(<<"a">>)]>>]

DateDicts ==
  {Opt("issued", i) @@ Opt("metadata_created", c) @@ Opt("modified", m)
     @@ Opt("metadata_modified", mm) @@ SerializeBase :
     i \in {Absent, None, S(<<>>)} \cup {S(x) : x \in DateStrings},
     c \in {Absent, S(<<"2015">>), S(<<"unknown">>)},
     m \in {Absent, S(<<"2015", "-", "06">>), S(<<"unknown">>)},
     mm \in {Absent, S(<<"2015", "-", "06", "-", "30">>)}}
  \cup
  {Put(SerializeBase, "extras", <<[key |-> k, value |-> S(x)]>>) :
     k \in {"issued", "dcat_issued", "dcat_modified"}, x \in DateStrings}

ResourceKinds ==
  {Opt("url", u) @@ Opt("download_url", dl) @@ Opt("format", f)
     @@ [name |-> S(<<"R">>), uri |-> S(<<"http://catalog/r/", n>>)] :
     u \in {Absent, S(<<>>), S(<<"http://u">>)},
     dl \in {Absent, S(<<>>), S(<<"http://u">>), S(<<"http://dl">>)},
     f \in {Absent, S(<<"CSV">>)},
     n \in {"x"}}

RECURSIVE Renumbered(_, _)
Renumbered(resources, i) ==
  IF i > Len(resources) THEN <<>>
  ELSE <<Put(resources[i], "uri", S(<<"http://catalog/r/", Names[i]>>))>>
       \o Renumbered(resources, i + 1)

ResourceDicts ==
  {Put(SerializeBase, "resources", Renumbered(rs, 1)) : rs \in SeqsUpTo(ResourceKinds, MaxLen)}

\* dicts whose keys are looked up at the top level and in the extras
LookupExtraKeys == {"issued", "dcat_issued", "other"}

LookupExtraKinds == [key : LookupExtraKeys, empty : BOOLEAN]

LookupExtras(kinds) ==
  [i \in 1..Len(kinds) |->
     [key |-> kinds[i].key,
      value |-> IF kinds[i].empty THEN S(<<>>) ELSE S(<<"extra", Names[i]>>)]]

LookupDicts ==
  {Opt("issued", top) @@ Opt("metadata_created", created) @@ extras :
     top \in {Absent, None, S(<<>>), S(<<"top">>)},
     created \in {Absent, S(<<>>), S(<<"created">>)},
     extras \in {EmptyDict}
                \cup {"extras" :> LookupExtras(kinds) :
                        kinds \in SeqsUpTo(LookupExtraKinds, MaxLen)}}

LookupScenarios ==
  [kind : {"lookup"}, g : {<<>>}, dict : LookupDicts, config : {DefaultConfig}]

LookupKeys == {"issued", "metadata_created", "modified"}

FallbackLists ==
  {<<>>, <<"metadata_created">>, <<"modified", "metadata_created">>,
   <<"metadata_created", "modified">>}

\* values handed to _add_list_triple
ListValues ==
  {L(<<>>), L(<<S(<<"a">>)>>), L(<<S(<<"a">>), S(<<"b", ",", "c">>)>>),
   S(<<"[", "]">>),
   S(<<"[", "\"", "a", "\"", "]">>),
   S(<<"[", "\"", "a", "\"", ",", " ", "\"", "b", "\"", "]">>),
   S(<<"[", "1", ",", " ", "2", "]">>),
   S(<<"4", "2">>), S(<<"7">>),
   S(<<"\"", "a", "b", "\"">>), S(<<"\"", "a", "\"">>), S(<<"\"", "\"">>),
   S(<<"true">>), S(<<"false">>), S(<<"null">>),
   S(<<"a">>), S(<<"a", " ", "b">>), S(<<"a", ",", "b">>), S(<<"a", ",", " ", "b", ",", "c">>),
   S(<<"[", "a">>), S(<<",">>)}

\* records with another organization, with organization None and without one
OrganizationDicts ==
  {Put(SerializeBase, "organization", D([name |-> S(<<"other">>)])),
   Put(SerializeBase, "organization", None),
   [k \in DOMAIN SerializeBase \ {"organization"} |-> SerializeBase[k]]}

SerializeScenarios ==
  [kind : {"dict"}, g : {<<>>}, dict : DateDicts \cup ResourceDicts \cup OrganizationDicts,
   config : {DefaultConfig}]

\* what package_show adds to a record before it is serialized
package_show(d) ==
  [name |-> S(<<"d1">>),
   organization |-> D([name |-> S(<<"iaest">>)]),
   license_url |-> S(<<"http://license">>),
   groups |-> [i \in 1..Len(d["groups"]) |->
                 Put(d["groups"][i], "display_name", S(<<"group", Names[i]>>))]]
  @@ d

(***************************************************************************)
(* The profile calls.  A profile is built on a graph (to parse) or on an   *)
(* empty graph (to serialize); a record that was parsed can be serialized  *)
(* on a fresh graph and the emitted dataset node parsed again.             *)
(***************************************************************************)
IdleConverters ==
  /\ iaest_dict = EmptyDict
  /\ package_dict = EmptyDict

InitProfile ==
  /\ calls = <<>>
  /\ results = <<>>
  /\ input \in ParseScenarios \cup SerializeScenarios \cup LookupScenarios
  /\ g = input.g
  /\ dataset_dict = input.dict
  /\ config = input.config
  /\ exc = ""
  /\ IdleConverters

call_parse_dataset ==
  /\ exc = ""
  /\ \/ calls = <<>> /\ input.kind = "graph"
     \/ calls # <<>> /\ Len(calls) < 3 /\ Last(calls) = "graph_from_dataset"
  /\ LET out == parse_dataset(g, IF calls = <<>> THEN dataset_dict ELSE EmptyDict,
                              dataset_ref, config)
     IN /\ dataset_dict' = out.dict
        /\ exc' = out.exc
        /\ results' = Append(results, [returned |-> out.returned, value |-> out.dict])
  /\ calls' = Append(calls, "parse_dataset")
  /\ UNCHANGED <<g, config, input, iaest_dict, package_dict>>

call_graph_from_dataset ==
  /\ exc = ""
  /\ \/ calls = <<>> /\ input.kind = "dict"
     \/ calls = <<"parse_dataset">>
  /\ LET d == IF calls = <<>> THEN dataset_dict ELSE package_show(dataset_dict)
         out == graph_from_dataset(<<>>, d, dataset_ref)
     IN /\ dataset_dict' = d
        /\ g' = out.g
        /\ exc' = out.exc
        /\ results' = Append(results, [returned |-> out.exc = "", value |-> d])
  /\ calls' = Append(calls, "graph_from_dataset")
  /\ UNCHANGED <<config, input, iaest_dict, package_dict>>

call__license ==
  /\ calls = <<>> /\ input.kind = "graph"
  /\ results' = <<[returned |-> TRUE, value |-> _license(g, dataset_ref)]>>
  /\ calls' = <<"_license">>
  /\ UNCHANGED <<g, dataset_dict, config, exc, input, iaest_dict, package_dict>>

call__distribution_format ==
  /\ calls = <<>> /\ input.kind = "graph"
  /\ \E i \in 1..Len(_distributions(g, dataset_ref)) :
       results' = <<[returned |-> TRUE,
                     distribution |-> _distributions(g, dataset_ref)[i],
                     normalize_ckan_format |-> config.normalize_ckan_format,
                     value |-> _distribution_format(g, _distributions(g, dataset_ref)[i],
                                                    config.normalize_ckan_format)]>>
  /\ calls' = <<"_distribution_format">>
  /\ UNCHANGED <<g, dataset_dict, config, exc, input, iaest_dict, package_dict>>

call__add_date_triple ==
  /\ calls = <<>> /\ input.kind = "dict"
  /\ \E predicate \in {"dct:issued", "dct:modified"} :
       LET key == IF predicate = "dct:issued" THEN "issued" ELSE "modified"
           value == ResolvedValue(dataset_dict, key, <<"metadata_" \o
                                  (IF key = "issued" THEN "created" ELSE "modified")>>)
           out == _add_date_triple(g, dataset_ref, predicate, value)
       IN /\ g' = out.g
          /\ exc' = out.exc
          /\ results' = <<[returned |-> out.exc = "", predicate |-> predicate, value |-> value]>>
  /\ calls' = <<"_add_date_triple">>
  /\ UNCHANGED <<dataset_dict, config, input, iaest_dict, package_dict>>

call__publisher ==
  /\ calls = <<>> /\ input.kind = "graph"
  /\ results' = <<[returned |-> TRUE, value |-> _publisher(g, dataset_ref, "dct:publisher")]>>
  /\ calls' = <<"_publisher">>
  /\ UNCHANGED <<g, dataset_dict, config, exc, input, iaest_dict, package_dict>>

call__spatial ==
  /\ calls = <<>> /\ input.kind = "graph"
  /\ results' = <<[returned |-> _spatial(g, dataset_ref, "dct:spatial").exc = "",
                   value |-> _spatial(g, dataset_ref, "dct:spatial").value]>>
  /\ exc' = _spatial(g, dataset_ref, "dct:spatial").exc
  /\ calls' = <<"_spatial">>
  /\ UNCHANGED <<g, dataset_dict, config, input, iaest_dict, package_dict>>

call__time_interval ==
  /\ calls = <<>> /\ input.kind = "graph"
  /\ results' = <<[returned |-> TRUE, value |-> _time_interval(g, dataset_ref, "dct:temporal")]>>
  /\ calls' = <<"_time_interval">>
  /\ UNCHANGED <<g, dataset_dict, config, exc, input, iaest_dict, package_dict>>

call__get_dict_value ==
  /\ calls = <<>> /\ input.kind = "lookup"
  /\ \E key \in LookupKeys, default \in {None, S(<<"default">>)} :
       results' = <<[returned |-> TRUE, key |-> key, default |-> default,
                     value |-> _get_dict_value(dataset_dict, key, default)]>>
  /\ calls' = <<"_get_dict_value">>
  /\ UNCHANGED <<g, dataset_dict, config, exc, input, iaest_dict, package_dict>>

call__add_triple_from_dict ==
  /\ calls = <<>> /\ input.kind = "lookup"
  /\ \E key \in LookupKeys, fallbacks \in FallbackLists,
        mode \in {"text", "list", "date"}, _type \in {"Literal", "URIRef"} :
       /\ mode = "date" => _type = "Literal"
       /\ g' = _add_triple_from_dict(g, dataset_dict, dataset_ref, "dct:issued",
                                     key, fallbacks, mode, _type).g
       /\ exc' = _add_triple_from_dict(g, dataset_dict, dataset_ref, "dct:issued",
                                       key, fallbacks, mode, _type).exc
       /\ results' = <<[returned |-> exc' = "", key |-> key, fallbacks |-> fallbacks,
                         mode |-> mode, _type |-> _type]>>
  /\ calls' = <<"_add_triple_from_dict">>
  /\ UNCHANGED <<dataset_dict, config, input, iaest_dict, package_dict>>

call__add_list_triple ==
  /\ calls = <<>> /\ input.kind = "lookup" /\ dataset_dict = EmptyDict
  /\ \E value \in ListValues :
       /\ g' = _add_list_triple(g, dataset_ref, "dct:language", value, "Literal").g
       /\ exc' = _add_list_triple(g, dataset_ref, "dct:language", value, "Literal").exc
       /\ results' = <<[returned |-> exc' = "", value |-> value]>>
  /\ calls' = <<"_add_list_triple">>
  /\ UNCHANGED <<dataset_dict, config, input, iaest_dict, package_dict>>

NextProfile ==
  \/ call_parse_dataset
  \/ call__get_dict_value
  \/ call__add_triple_from_dict
  \/ call__add_list_triple
  \/ call__publisher
  \/ call__spatial
  \/ call__time_interval
  \/ call_graph_from_dataset
  \/ call__license
  \/ call__distribution_format
  \/ call__add_date_triple

SpecProfile == InitProfile /\ [][NextProfile]_vars

(***************************************************************************)
(* Claims about the converters (checked under SpecConv).                   *)
(***************************************************************************)
RoundTripDone == calls = <<"ckan_to_iaest", "iaest_to_ckan">>

TagNames(package) ==
  {GetList(package, "tags")[i].name : i \in 1..Len(GetList(package, "tags"))}

\* C1: for a record r with only recognized extras keys,
\* iaest_to_ckan(ckan_to_iaest(r)) has the same title, notes and url, the same
\* set of tag names and, resource by resource, the same url, format and size
\* (a size of 0 or an absent size included).
C1_RoundTripPreserves ==
  RoundTripDone =>
    LET r == input.value
        rs == GetList(r, "resources")
        back == package_dict.resources
    IN /\ package_dict.title = Get(r, "title")
       /\ package_dict.notes = Get(r, "notes")
       /\ package_dict.url = Get(r, "url")
       /\ TagNames(package_dict) = TagNames(r)
       /\ Len(back) = Len(rs)
       /\ \A i \in 1..Len(rs) :
            /\ Get(back[i], "url") = Get(rs[i], "url")
            /\ Get(back[i], "format") = Get(rs[i], "format")
            /\ Get(back[i], "size") = Get(rs[i], "size")

\* byteSize holds a value: the key is there and is neither None nor ''
HasValue(v) == v # None /\ v # S(<<>>)

\* C2: every distribution becomes exactly one resource, in order, with
\* name = title, description, format, url = downloadURL when that is non-empty
\* and accessURL otherwise; the resource has a size key iff byteSize is
\* non-empty and parses as an integer, and size is then that integer.
C2_DistributionsBecomeResources ==
  (calls # <<>> /\ Last(calls) = "iaest_to_ckan") =>
    LET ds == GetList(iaest_dict, "distribution")
        rs == package_dict.resources
    IN /\ Len(rs) = Len(ds)
       /\ \A i \in 1..Len(ds) :
            LET b == Get(ds[i], "byteSize")
            IN /\ rs[i].name = Get(ds[i], "title")
               /\ rs[i].description = Get(ds[i], "description")
               /\ rs[i].format = Get(ds[i], "format")
               /\ rs[i].url = IF HasValue(Get(ds[i], "downloadURL"))
                              THEN Get(ds[i], "downloadURL")
                              ELSE Get(ds[i], "accessURL")
               /\ ("size" \in DOMAIN rs[i]) <=> (HasValue(b) /\ IntParses(b))
               /\ ("size" \in DOMAIN rs[i]) => rs[i].size = I(IntOf(b))

\* C10: ckan_to_iaest emits one distribution per resource, in resource order,
\* with title = name, description, format, byteSize = size, accessURL = url,
\* and license 'cc-by-4.0' whatever license the resource carries.
C10_ResourcesBecomeDistributions ==
  (calls # <<>> /\ Last(calls) = "ckan_to_iaest") =>
    LET rs == GetList(package_dict, "resources")
        ds == iaest_dict["distribution"]
    IN /\ Len(ds) = Len(rs)
       /\ \A i \in 1..Len(rs) :
            /\ DOMAIN ds[i] =
                 {"title", "description", "format", "byteSize", "accessURL", "license"}
            /\ ds[i].title = Get(rs[i], "name")
            /\ ds[i].description = Get(rs[i], "description")
            /\ ds[i].format = Get(rs[i], "format")
            /\ ds[i].byteSize = Get(rs[i], "size")
            /\ ds[i].accessURL = Get(rs[i], "url")
            /\ ds[i].license = S(<<"cc-by-4.0">>)

C10_Witness ==
  /\ calls = <<"ckan_to_iaest">>
  /\ Len(iaest_dict["distribution"]) = 2
  /\ Get(package_dict.resources[1], "license") = S(<<"odc-by">>)
  /\ Get(package_dict.resources[2], "size") = I(0)
  /\ iaest_dict["distribution"][1].license = S(<<"cc-by-4.0">>)

(***************************************************************************)
(* Claims about the profile (SpecProfile).                                 *)
(***************************************************************************)
\* the first call of the behaviour parsed the input graph
FirstParse == calls # <<>> /\ calls[1] = "parse_dataset"

InputKeywords == _object_value_list(input.g, dataset_ref, "dcat:keyword")

RECURSIVE PlainKeywords(_)
PlainKeywords(keywords) ==
  IF keywords = <<>> THEN <<>>
  ELSE IF "," \in {Head(keywords)[2][i] : i \in 1..Len(Head(keywords)[2])}
       THEN PlainKeywords(Tail(keywords))
       ELSE <<Head(keywords)>> \o PlainKeywords(Tail(keywords))

RECURSIVE SplitOnes(_)
SplitOnes(keywords) ==
  IF keywords = <<>> THEN <<>>
  ELSE IF "," \in {Head(keywords)[2][i] : i \in 1..Len(Head(keywords)[2])}
       THEN [i \in 1..Len(Split(Head(keywords)[2])) |->
               S(Strip(Split(Head(keywords)[2])[i]))]
            \o SplitOnes(Tail(keywords))
       ELSE SplitOnes(Tail(keywords))

KeywordsAB_C == <<S(<<"a", ",", "b">>), S(<<"c">>)>>

\* C3 as stated: the keyword list ["a,b", "c"] parses into the tags a, b, c in
\* that order.
C3_TagsInKeywordOrder ==
  (FirstParse /\ InputKeywords = KeywordsAB_C)
    => results[1].value["tags"]
         = <<[name |-> S(<<"a">>)], [name |-> S(<<"b">>)], [name |-> S(<<"c">>)]>>

\* C3, amended: parse_dataset lists first the keywords without a comma, in
\* iteration order, and after them the stripped fragments of the keywords with
\* a comma; the keyword list ["a,b", "c"] parses into the tags c, a, b.
C3_FragmentsAfterPlainKeywords ==
  FirstParse =>
    /\ results[1].value["tags"]
         = [i \in 1..Len(PlainKeywords(InputKeywords) \o SplitOnes(InputKeywords)) |->
              [name |-> (PlainKeywords(InputKeywords) \o SplitOnes(InputKeywords))[i]]]
    /\ InputKeywords = KeywordsAB_C
         => results[1].value["tags"]
              = <<[name |-> S(<<"c">>)], [name |-> S(<<"a">>)], [name |-> S(<<"b">>)]>>

C3_Witness ==
  /\ FirstParse
  /\ InputKeywords = KeywordsAB_C
  /\ Len(results[1].value["tags"]) = 3

FormatCalled == calls = <<"_distribution_format">>

CanonicalLabels == {S(resource_formats[k][2][2]) : k \in DOMAIN resource_formats}

\* the label the distribution declares, before any normalization
DeclaredLabel == FormatPair(input.g, results[1].distribution)[2]

\* the media type resolved for the distribution
ResolvedMediaType == results[1].value[1]

\* C4 as stated: with normalize_ckan_format true, a distribution whose label is
\* already a canonical label of the registry keeps that label, whatever media
\* type it declares.
C4_CanonicalLabelKept ==
  (FormatCalled /\ results[1].normalize_ckan_format /\ DeclaredLabel \in CanonicalLabels)
    => results[1].value[2] = DeclaredLabel

\* C4, amended: with normalize_ckan_format true, a distribution whose label is
\* already canonical keeps that label provided its media type is not a key of
\* the registry or is a key of an entry with that same label; a media type
\* registered for another format replaces the label by that format's label.
C4_CanonicalLabelKeptUnlessMediaTypeRegistered ==
  (FormatCalled /\ results[1].normalize_ckan_format /\ DeclaredLabel \in CanonicalLabels)
    => IF IsStr(ResolvedMediaType) /\ ResolvedMediaType[2] \in DOMAIN resource_formats
       THEN results[1].value[2] = resource_formats[ResolvedMediaType[2]][2]
       ELSE results[1].value[2] = DeclaredLabel

C4_Witness ==
  /\ FormatCalled
  /\ results[1].normalize_ckan_format
  /\ DeclaredLabel = S(<<"JSON">>)
  /\ ResolvedMediaType = S(<<"text", "/", "csv">>)
  /\ results[1].value[2] = S(<<"CSV">>)

\* the dct:license value of the input dataset node: its first object, else ''
DeclaredLicense ==
  IF \E i \in 1..Len(input.g) :
       input.g[i][1] = dataset_ref /\ input.g[i][2] = "dct:license"
  THEN S(input.g[CHOOSE i \in 1..Len(input.g) :
                   /\ input.g[i][1] = dataset_ref /\ input.g[i][2] = "dct:license"
                   /\ \A j \in 1..(i - 1) :
                        ~(input.g[j][1] = dataset_ref /\ input.g[j][2] = "dct:license")][3][2])
  ELSE S(<<>>)

ExpectedLicense ==
  IF \E i \in 1..Len(LicenseRegister) : LicenseRegister[i].id = DeclaredLicense
  THEN LET first == CHOOSE i \in 1..Len(LicenseRegister) :
                      /\ LicenseRegister[i].id = DeclaredLicense
                      /\ \A j \in 1..(i - 1) : LicenseRegister[j].id # DeclaredLicense
       IN <<LicenseRegister[first].id, LicenseRegister[first].title>>
  ELSE <<S(<<>>), S(<<>>)>>

InputThemeIds ==
  [i \in 1..Len(_themes(input.g, dataset_ref)) |->
     _object_value(input.g, _themes(input.g, dataset_ref)[i], "dct:identifier")]

HasGroup(id) == \E grp \in Groups : grp.id = id \/ grp.name = id

UnknownTheme ==
  \E i \in 1..Len(InputThemeIds) : InputThemeIds[i] # S(<<>>) /\ ~HasGroup(InputThemeIds[i])

\* C6: when a theme node has a non-empty identifier without a group,
\* parse_dataset raises and returns no record, whatever else the dataset holds;
\* theme nodes without an identifier are skipped without error.
C6_UnknownThemeIsFatal ==
  FirstParse =>
    /\ UnknownTheme => ~results[1].returned /\ (calls = <<"parse_dataset">> => exc # "")
    /\ ~UnknownTheme =>
         /\ results[1].returned
         /\ Len(results[1].value["groups"])
              = Cardinality({i \in 1..Len(InputThemeIds) : InputThemeIds[i] # S(<<>>)})

C6_Witness ==
  /\ calls = <<"parse_dataset">>
  /\ Len(InputThemeIds) = 2
  /\ InputThemeIds[1] = S(<<"g-1">>)
  /\ InputThemeIds[2] = S(<<"nope">>)
  /\ \E i \in 1..Len(input.g) : input.g[i][2] = "dcat:distribution"
  /\ ~results[1].returned
  /\ exc = "AttributeError"

\* what dateutil makes of the strings it accepts, completed from 0001-01-01
ExpectedIso ==
  (<<"2015">> :> <<"2015", "-", "01", "-", "01", "T", "00:00:00">>)
  @@ (<<"2015", "-", "06">> :> <<"2015", "-", "06", "-", "01", "T", "00:00:00">>)
  @@ (<<"2015", "-", "06", "-", "30">> :> <<"2015", "-", "06", "-", "30", "T", "00:00:00">>)
  @@ (<<"06", "-", "30">> :> <<"0001", "-", "06", "-", "30", "T", "00:00:00">>)

ExpectedDateObject(value) ==
  IF value[2] \in DOMAIN ExpectedIso
  THEN <<"lit", ExpectedIso[value[2]], "xsd:dateTime", "">>
  ELSE <<"lit", value[2], "", "">>

\* the value graph_from_dataset resolves for the issued triple of the input dict
InputIssued ==
  IF "issued" \in DOMAIN input.dict THEN input.dict["issued"]
  ELSE IF \E i \in 1..Len(GetList(input.dict, "extras")) :
            input.dict["extras"][i].key \in {"issued", "dcat_issued"}
  THEN input.dict["extras"][1].value
  ELSE None

\* C7: for a non-empty value, _add_date_triple adds exactly one triple and
\* raises nothing; its object is the ISO-8601 form typed xsd:dateTime when the
\* value parses as a date (missing parts from 0001-01-01) and otherwise the
\* original string as an untyped literal.  graph_from_dataset writes the issued
\* triple this way.
C7_UnparsableDateKeptAsString ==
  /\ (calls = <<"_add_date_triple">> /\ results[1].value # None /\ results[1].value # S(<<>>))
       => /\ exc = ""
          /\ g = <<<<dataset_ref, results[1].predicate, ExpectedDateObject(results[1].value)>>>>
  /\ (calls = <<"graph_from_dataset">> /\ exc = ""
      /\ InputIssued # None /\ InputIssued # S(<<>>))
       => Objects(g, dataset_ref, "dct:issued") = <<ExpectedDateObject(InputIssued)>>

C7_Witness ==
  /\ calls = <<"_add_date_triple">>
  /\ results[1].value = S(<<"2015", "-", "unknown">>)
  /\ g = <<<<dataset_ref, results[1].predicate, <<"lit", <<"2015", "-", "unknown">>, "", "">>>>>>

RoundTripParsed == calls = <<"parse_dataset", "graph_from_dataset", "parse_dataset">>

\* C8: a record parsed from a graph with at least one distribution, written
\* with graph_from_dataset and parsed again, has the same number of resources
\* and, per resource, the same name and url.
C8_RoundTripKeepsResources ==
  (RoundTripParsed /\ results[1].value["resources"] # <<>>)
    => /\ Len(results[3].value["resources"]) = Len(results[1].value["resources"])
       /\ \A i \in 1..Len(results[1].value["resources"]) :
            /\ Get(results[3].value["resources"][i], "name")
                 = Get(results[1].value["resources"][i], "name")
            /\ Get(results[3].value["resources"][i], "url")
                 = Get(results[1].value["resources"][i], "url")

Collections == {"tags", "extras", "resources", "groups"}

\* the keys parse_dataset may write
FieldTable ==
  Collections \cup {"title", "notes", "url", "version", "maintainer", "author",
                    "author_email", "license_id", "license_title"}

\* C9: a record that parse_dataset returns has tags, extras, resources and
\* groups, none of them holding an entry the record passed in had under that
\* key, each equal to what the same graph gives on an empty record; the keys
\* of the record passed in that the parser does not write are unchanged.
C9_CollectionsResetOthersKept ==
  (FirstParse /\ results[1].returned) =>
    /\ Collections \subseteq DOMAIN results[1].value
    /\ \A k \in Collections :
         /\ results[1].value[k] = parse_dataset(input.g, EmptyDict, dataset_ref, input.config).dict[k]
         /\ \A i \in 1..Len(results[1].value[k]) :
              \A j \in 1..Len(GetList(input.dict, k)) :
                results[1].value[k][i] # input.dict[k][j]
    /\ \A k \in DOMAIN input.dict \ FieldTable :
         k \in DOMAIN results[1].value /\ results[1].value[k] = input.dict[k]

C9_Witness ==
  /\ FirstParse
  /\ results[1].returned
  /\ GetList(input.dict, "tags") # <<>>
  /\ GetList(input.dict, "groups") # <<>>
  /\ results[1].value["tags"] # <<>>
  /\ results[1].value["groups"] # <<>>
  /\ "name" \in DOMAIN input.dict

(***************************************************************************)
(* Further claims about the converters (SpecConv).                         *)
(***************************************************************************)
\* the values of the source dict that may reach the extras
SourceExtraValues(d) ==
  {Get(d, "issued"), Get(d, "modified"), Get(d, "identifier"),
   S(Join([i \in 1..Len(GetList(d, "language")) |-> GetList(d, "language")[i][2]]))}
  \cup (IF IsStr(Get(d, "publisher")) THEN {Get(d, "publisher")} ELSE {})
  \cup (IF IsDict(Get(d, "publisher"))
        THEN {Get(Get(d, "publisher")[2], "name"), Get(Get(d, "publisher")[2], "mbox")}
        ELSE {})

\* C11: every extras entry of the record iaest_to_ckan returns has one of the
\* keys iaest_issued, iaest_modified, guid, iaest_publisher_name,
\* iaest_publisher_email, language, and a value that comes from the source dict.
C11_ExtrasComeFromSource ==
  calls = <<"iaest_to_ckan">> =>
    \A i \in 1..Len(package_dict.extras) :
      /\ package_dict.extras[i].key \in
           {"iaest_issued", "iaest_modified", "guid", "iaest_publisher_name",
            "iaest_publisher_email", "language"}
      /\ package_dict.extras[i].value \in SourceExtraValues(input.value)

\* the value of the last extras entry with that key; Absent when there is none
RECURSIVE ExtraValue(_, _)
ExtraValue(extras, key) ==
  IF extras = <<>> THEN Absent
  ELSE IF extras[Len(extras)].key = key THEN extras[Len(extras)].value
  ELSE ExtraValue(SubSeq(extras, 1, Len(extras) - 1), key)

NonEmpty(v) == v # Absent /\ v # None /\ v # S(<<>>)

\* C12: ckan_to_iaest always emits a publisher object.  With a non-empty
\* iaest_publisher_name in the extras, name and mbox come from the extras only
\* and maintainer / maintainer_email are ignored; without one and with a
\* non-empty maintainer, name is the maintainer and mbox the maintainer_email
\* when that is non-empty.
C12_PublisherFromExtrasElseMaintainer ==
  calls = <<"ckan_to_iaest">> =>
    LET extras == GetList(input.value, "extras")
        name == ExtraValue(extras, "iaest_publisher_name")
        email == ExtraValue(extras, "iaest_publisher_email")
        maintainer == Get(input.value, "maintainer")
        maintainer_email == Get(input.value, "maintainer_email")
        publisher == iaest_dict["publisher"]
    IN /\ IsDict(publisher)
       /\ NonEmpty(name) =>
            /\ Get(publisher[2], "name") = name
            /\ IF email = Absent THEN "mbox" \notin DOMAIN publisher[2]
               ELSE publisher[2]["mbox"] = email
       /\ (~NonEmpty(name) /\ NonEmpty(maintainer)) =>
            /\ Get(publisher[2], "name") = maintainer
            /\ NonEmpty(maintainer_email) => Get(publisher[2], "mbox") = maintainer_email

C12_Witness ==
  /\ calls = <<"ckan_to_iaest">>
  /\ ExtraValue(GetList(input.value, "extras"), "iaest_publisher_name") = S(<<"v">>)
  /\ Get(input.value, "maintainer") = S(<<"M">>)
  /\ Get(input.value, "maintainer_email") = S(<<"m@y">>)
  /\ iaest_dict["publisher"] = D([name |-> S(<<"v">>)])

(***************************************************************************)
(* Further claims about the profile (SpecProfile).                         *)
(***************************************************************************)
\* C13: when parse_dataset fails on a theme identifier without a group, the
\* dict the caller passed in is as it was before the call.
C13_FailedParseLeavesDictUntouched ==
  (calls = <<"parse_dataset">> /\ exc # "") => dataset_dict = input.dict

Commas(chars) == Cardinality({i \in 1..Len(chars) : chars[i] = ","})

\* the number of fragments the keywords with a comma split into
RECURSIVE FragmentCount(_)
FragmentCount(keywords) ==
  IF keywords = <<>> THEN 0
  ELSE (IF Commas(Head(keywords)[2]) > 0 THEN Commas(Head(keywords)[2]) + 1 ELSE 0)
       + FragmentCount(Tail(keywords))

Trimmed(chars) == chars = <<>> \/ (chars[1] # " " /\ chars[Len(chars)] # " ")

\* C14: the tags are the keywords without a comma in their original order,
\* followed by the trimmed fragments of each keyword with a comma in split
\* order; no tag name contains a comma and the number of tags is the number
\* of comma-free keywords plus the number of fragments.
C14_PlainKeywordsThenFragments ==
  FirstParse =>
    LET tags == results[1].value["tags"]
        plain == PlainKeywords(InputKeywords)
    IN /\ Len(tags) = Len(plain) + FragmentCount(InputKeywords)
       /\ \A i \in 1..Len(tags) :
            /\ DOMAIN tags[i] = {"name"}
            /\ Commas(tags[i].name[2]) = 0
            /\ i <= Len(plain) => tags[i].name = plain[i]
            /\ i > Len(plain) =>
                 /\ Trimmed(tags[i].name[2])
                 /\ tags[i].name = SplitOnes(InputKeywords)[i - Len(plain)]

C14_Witness ==
  /\ FirstParse
  /\ InputKeywords = <<S(<<" ", "a", " ", ",", "b">>), S(<<"a", " ", "b">>)>>
  /\ results[1].value["tags"]
       = <<[name |-> S(<<"a", " ", "b">>)], [name |-> S(<<"a">>)], [name |-> S(<<"b">>)]>>

\* the objects the input dataset node has for a predicate
InputObjects(predicate) ==
  [i \in 1..Len(Objects(input.g, dataset_ref, predicate)) |->
     Objects(input.g, dataset_ref, predicate)[i]]

\* C15: for a dataset node without publisher, author e-mail and license, the
\* record parse_dataset returns has no maintainer, author, author_email,
\* license_id or license_title key, has no url key either when the node has
\* no landing page, and no error occurs.
C15_AbsentFieldsOmitted ==
  (/\ FirstParse
   /\ input.dict = EmptyDict
   /\ ~UnknownTheme
   /\ InputObjects("dct:publisher") = <<>>
   /\ InputObjects("dcat:author_email") = <<>>
   /\ InputObjects("dct:license") = <<>>)
    => /\ results[1].returned
       /\ DOMAIN results[1].value
            \cap {"maintainer", "author", "author_email", "license_id", "license_title"} = {}
       /\ InputObjects("dcat:landingPage") = <<>> => "url" \notin DOMAIN results[1].value

\* C16: when the dataset node has a dcat:landingPage value, the record
\* parse_dataset returns has url equal to it, with or without a publisher and
\* whether or not the publisher has a homepage.
C16_UrlIsLandingPage ==
  (FirstParse /\ results[1].returned /\ InputObjects("dcat:landingPage") # <<>>)
    => /\ "url" \in DOMAIN results[1].value
       /\ results[1].value["url"] = S(InputObjects("dcat:landingPage")[1][2])

\* C17: _publisher always returns a record with the keys uri, name, email,
\* url, type and title, each '' when the data is absent, also when the subject
\* has no publisher object; uri is non-empty only for an agent that is an IRI.
C17_PublisherHasAllKeys ==
  calls = <<"_publisher">> =>
    /\ DOMAIN results[1].value = {"uri", "name", "email", "url", "type", "title"}
    /\ \A k \in DOMAIN results[1].value : results[1].value[k][1] = "str"
    /\ results[1].value["uri"] # <<"str", <<>>>> =>
         \E i \in 1..Len(InputObjects("dct:publisher")) :
           /\ InputObjects("dct:publisher")[i][1] = "uri"
           /\ results[1].value["uri"] = <<"str", InputObjects("dct:publisher")[i][2]>>


\* the geometries of a dataset whose only spatial object is one dct:Location node
SpatialCalled == calls = <<"_spatial">>

OneLocation ==
  /\ Len(InputObjects("dct:spatial")) = 1
  /\ IsLocation(input.g, InputObjects("dct:spatial")[1])

InputGeometries ==
  IF InputObjects("dct:spatial") = <<>> THEN <<>>
  ELSE Objects(input.g, InputObjects("dct:spatial")[1], "locn:geometry")

LoadsAsGeoJson(geometry) ==
  /\ IsLiteral(geometry)
  /\ geometry[3] \in {GEOJSON_IMT, ""}
  /\ Len(geometry[2]) >= 2 /\ geometry[2][1] = "{" /\ geometry[2][Len(geometry[2])] = "}"

ParsesAsWkt(geometry) ==
  /\ IsLiteral(geometry)
  /\ geometry[3] = WktLiteral
  /\ Len(geometry[2]) = 4 /\ geometry[2][1] = "POINT"

GeoJsonForm(geometry) ==
  IF geometry[3] = WktLiteral THEN S(WktToGeoJson(geometry[2])) ELSE S(geometry[2])

ParsingGeometries ==
  {i \in 1..Len(InputGeometries) :
     LoadsAsGeoJson(InputGeometries[i]) \/ ParsesAsWkt(InputGeometries[i])}

LoadingGeoJsons == {i \in 1..Len(InputGeometries) : LoadsAsGeoJson(InputGeometries[i])}

ParsingWkts == {i \in 1..Len(InputGeometries) : ParsesAsWkt(InputGeometries[i])}

Least(set) == CHOOSE i \in set : \A j \in set : i <= j

Greatest(set) == CHOOSE i \in set : \A j \in set : j <= i

AllGeometriesLiteral == \A i \in 1..Len(InputGeometries) : IsLiteral(InputGeometries[i])

\* C18: for a dct:Location node with several geometry literals, geom is the
\* GeoJSON form of the first geometry that parses and no later geometry
\* replaces it; malformed geometries are skipped without error.
C18_FirstParsedGeometryWins ==
  (SpatialCalled /\ OneLocation /\ AllGeometriesLiteral) =>
    /\ exc = ""
    /\ results[1].value.geom =
         IF ParsingGeometries = {} THEN None
         ELSE GeoJsonForm(InputGeometries[Least(ParsingGeometries)])

\* C18: for a dct:Location node with several geometry literals, geom is the
\* text of the last GeoJSON literal (typed as GeoJSON or untyped) that loads;
\* when none loads it is the GeoJSON form of the first WKT literal that parses,
\* and None when there is none either; malformed geometries are skipped
\* without error.
C18_LastGeoJsonElseFirstWkt ==
  (SpatialCalled /\ OneLocation /\ AllGeometriesLiteral) =>
    /\ exc = ""
    /\ results[1].value.geom =
         IF LoadingGeoJsons # {} THEN GeoJsonForm(InputGeometries[Greatest(LoadingGeoJsons)])
         ELSE IF ParsingWkts # {} THEN GeoJsonForm(InputGeometries[Least(ParsingWkts)])
         ELSE None

C18_Witness ==
  /\ SpatialCalled /\ OneLocation
  /\ Len(InputGeometries) = 2
  /\ ParsesAsWkt(InputGeometries[1])
  /\ LoadsAsGeoJson(InputGeometries[2])
  /\ results[1].value.geom = S(InputGeometries[2][2])

IntervalCalled == calls = <<"_time_interval">>

InputIntervals == InputObjects("dct:temporal")

\* the schema.org and W3C dates of an interval object, '' when absent
SchemaDates(interval) ==
  <<_object_value(input.g, interval, "schema:startDate"),
    _object_value(input.g, interval, "schema:endDate")>>

W3CDateOf(interval, predicate) ==
  IF Objects(input.g, interval, predicate) = <<>> THEN S(<<>>)
  ELSE _object_value(input.g, Objects(input.g, interval, predicate)[1], "time:inXSDDateTime")

W3CDates(interval) ==
  <<W3CDateOf(interval, "time:hasBeginning"), W3CDateOf(interval, "time:hasEnd")>>

HavingSchemaDate ==
  {i \in 1..Len(InputIntervals) :
     \/ Objects(input.g, InputIntervals[i], "schema:startDate") # <<>>
     \/ Objects(input.g, InputIntervals[i], "schema:endDate") # <<>>}

HavingNonEmptySchemaDate ==
  {i \in 1..Len(InputIntervals) :
     SchemaDates(InputIntervals[i]) # <<S(<<>>), S(<<>>)>>}

\* C19: when an interval object has a schema.org startDate or endDate the
\* result is the schema.org pair of the first such object; otherwise it is the
\* W3C pair of the last interval object, and (None, None) without intervals.
C19_SchemaFirstElseLastW3C ==
  IntervalCalled =>
    results[1].value =
      IF InputIntervals = <<>> THEN <<None, None>>
      ELSE IF HavingSchemaDate # {} THEN SchemaDates(InputIntervals[Least(HavingSchemaDate)])
      ELSE W3CDates(InputIntervals[Len(InputIntervals)])

\* C19: when an interval object has a non-empty schema.org startDate or
\* endDate the result is the schema.org pair of the first such object,
\* whatever W3C values there are; otherwise it is the W3C hasBeginning /
\* hasEnd pair of the last interval object ('' where that object has none,
\* never a value of an earlier object), and (None, None) without intervals.
C19_NonEmptySchemaFirstElseLastW3C ==
  IntervalCalled =>
    results[1].value =
      IF InputIntervals = <<>> THEN <<None, None>>
      ELSE IF HavingNonEmptySchemaDate # {}
      THEN SchemaDates(InputIntervals[Least(HavingNonEmptySchemaDate)])
      ELSE W3CDates(InputIntervals[Len(InputIntervals)])

C19_Witness ==
  /\ IntervalCalled
  /\ Len(InputIntervals) = 2
  /\ HavingNonEmptySchemaDate = {}
  /\ W3CDates(InputIntervals[1]) = <<S(<<"2003-01-0", "1">>), S(<<"2004-01-0", "1">>)>>
  /\ W3CDates(InputIntervals[2]) = <<S(<<"2003-01-0", "2">>), S(<<>>)>>
  /\ results[1].value = <<S(<<"2003-01-0", "2">>), S(<<>>)>>

InputChecksums ==
  IF InputObjects("dcat:distribution") = <<>> THEN <<>>
  ELSE Objects(input.g, InputObjects("dcat:distribution")[1], "spdx:checksum")

\* the resource's value under key, '' when the key is missing
ResourceValue(key) ==
  IF key \in DOMAIN results[1].value["resources"][1]
  THEN results[1].value["resources"][1][key] ELSE S(<<>>)

\* C20: for a distribution with several checksum nodes, hash_algorithm and
\* hash of the resource are the algorithm and the value of the last checksum
\* node, so both come from the same node.
C20_ChecksumOfLastNode ==
  (FirstParse /\ results[1].returned /\ Len(InputChecksums) >= 2) =>
    /\ ResourceValue("hash_algorithm") =
         _object_value(input.g, InputChecksums[Len(InputChecksums)], "spdx:algorithm")
    /\ ResourceValue("hash") =
         _object_value(input.g, InputChecksums[Len(InputChecksums)], "spdx:checksumValue")

\* what the graph holds for the distribution _distribution_format was called on
FormatObjects(predicate) == Objects(input.g, results[1].distribution, predicate)

FormatLiteral ==
  FormatObjects("dct:format") # <<>> /\ IsLiteral(FormatObjects("dct:format")[1])

FormatIsIMTNode ==
  /\ FormatObjects("dct:format") # <<>>
  /\ ~IsLiteral(FormatObjects("dct:format")[1])
  /\ Objects(input.g, FormatObjects("dct:format")[1], "rdf:type") # <<>>
  /\ Objects(input.g, FormatObjects("dct:format")[1], "rdf:type")[1] = URIRef(<<"dct:IMT">>)

\* the string of the first object of the format node under predicate, if any
IMTNodeHolds(predicate, v) ==
  IF Objects(input.g, FormatObjects("dct:format")[1], predicate) = <<>>
  THEN ~Truthy(v)
  ELSE v = S(Objects(input.g, FormatObjects("dct:format")[1], predicate)[1][2])

\* C21: without normalization, the media type is the dcat:mediaType value if
\* present, else a dct:format literal containing '/', else the value of the
\* dct:IMT-typed format node; the label is a dct:format literal only when it
\* contains no '/', else the label of the dct:IMT-typed node; both are absent
\* (None or '') when the graph holds no value for them.
C21_FormatPrecedence ==
  (FormatCalled /\ ~results[1].normalize_ckan_format) =>
    /\ IF FormatObjects("dcat:mediaType") # <<>>
       THEN results[1].value[1] = S(FormatObjects("dcat:mediaType")[1][2])
       ELSE IF FormatLiteral /\ Contains(FormatObjects("dct:format")[1][2], "/")
       THEN results[1].value[1] = S(FormatObjects("dct:format")[1][2])
       ELSE IF FormatIsIMTNode THEN IMTNodeHolds("rdf:value", results[1].value[1])
       ELSE ~Truthy(results[1].value[1])
    /\ IF FormatLiteral /\ ~Contains(FormatObjects("dct:format")[1][2], "/")
       THEN results[1].value[2] = S(FormatObjects("dct:format")[1][2])
       ELSE IF FormatIsIMTNode THEN IMTNodeHolds("rdfs:label", results[1].value[2])
       ELSE ~Truthy(results[1].value[2])

LookupCalled == calls = <<"_get_dict_value">>

\* the positions of the extras entries stored under key or its legacy name
MatchingExtras(key) ==
  {i \in 1..Len(GetList(input.dict, "extras")) :
     input.dict["extras"][i].key \in {key, "dcat_" \o key}}

\* C22: a key present at the top level yields its value, even None or '',
\* and the extras are not consulted; a key absent at the top level yields the
\* value of the first extras entry stored under key or 'dcat_' + key; default
\* is returned only when neither exists.
C22_TopLevelThenFirstExtra ==
  LookupCalled =>
    results[1].value =
      IF results[1].key \in DOMAIN input.dict THEN input.dict[results[1].key]
      ELSE IF MatchingExtras(results[1].key) # {}
      THEN input.dict["extras"][Least(MatchingExtras(results[1].key))].value
      ELSE results[1].default

C22_Witness ==
  /\ LookupCalled
  /\ results[1].key = "issued"
  /\ "issued" \in DOMAIN input.dict /\ input.dict["issued"] = None
  /\ Cardinality(MatchingExtras("issued")) = 2
  /\ input.dict["extras"][1].value = S(<<"extra", "1">>)
  /\ results[1].default = S(<<"default">>)
  /\ results[1].value = None

TripleFromDictCalled == calls = <<"_add_triple_from_dict">>

\* key followed by the fallbacks, and the positions that resolve to a value
Candidates == <<results[1].key>> \o results[1].fallbacks

NonEmptyCandidates ==
  {i \in 1..Len(Candidates) : Truthy(_get_dict_value(input.dict, Candidates[i], None))}

UsedValue == _get_dict_value(input.dict, Candidates[Least(NonEmptyCandidates)], None)

\* C23: _add_triple_from_dict writes the value of the first of key, fallback
\* 1, fallback 2, ... that resolves to a non-empty value; when none does, the
\* graph is left unchanged and nothing is raised.
C23_FirstNonEmptyOfKeyAndFallbacks ==
  TripleFromDictCalled =>
    /\ exc = ""
    /\ g = IF NonEmptyCandidates = {} THEN input.g
           ELSE Append(input.g,
                       <<dataset_ref, "dct:issued",
                         IF results[1]._type = "URIRef" THEN URIRef(UsedValue[2])
                         ELSE Literal(UsedValue[2])>>)

C23_Witness ==
  /\ TripleFromDictCalled
  /\ results[1].key = "issued" /\ results[1].fallbacks = <<"modified", "metadata_created">>
  /\ "issued" \in DOMAIN input.dict /\ input.dict["issued"] = S(<<>>)
  /\ MatchingExtras("issued") # {}
  /\ NonEmptyCandidates = {3}
  /\ g = <<<<dataset_ref, "dct:issued", Literal(<<"created">>)>>>>

ListTripleCalled == calls = <<"_add_list_triple">>

\* the number of different items the value stands for: the items of a list or
\* JSON list, one for a JSON scalar, the comma-separated pieces otherwise
ListItemCount(value) ==
  IF IsList(value) THEN Cardinality({value[2][i] : i \in 1..Len(value[2])})
  ELSE IF JsonKind(value[2]) = "list"
  THEN Cardinality({JsonPieces(value[2])[i] : i \in 1..Len(JsonPieces(value[2]))})
  ELSE IF JsonKind(value[2]) \in {"number", "string", "bool", "null"} THEN 1
  ELSE Cardinality({Split(value[2])[i] : i \in 1..Len(Split(value[2]))})

\* C24: _add_list_triple adds exactly one triple for a string that is a JSON
\* scalar (number, quoted string, true/false, null) and does not raise; one
\* triple per item for a list or a JSON list; one triple per comma-separated
\* piece for a string that is not JSON.
C24_OneTriplePerItem ==
  ListTripleCalled =>
    /\ exc = ""
    /\ Len(g) = Len(input.g) + ListItemCount(results[1].value)

\* graph_from_dataset called on the input record
FirstSerialize == calls # <<>> /\ calls[1] = "graph_from_dataset"

WrittenPublishers == Objects(g, dataset_ref, "dct:publisher")

\* C25: graph_from_dataset adds exactly one dct:publisher triple to the
\* dataset node: the IRI built from the catalog base URI and the organization
\* name when the record has an organization, a blank node when it has none,
\* and the call does not fail for a record without organization.
C25_PublisherAlwaysWritten ==
  (calls = <<"graph_from_dataset">> /\ input.kind = "dict") =>
    IF "organization" \in DOMAIN input.dict /\ IsDict(input.dict["organization"])
    THEN exc = "" =>
           WrittenPublishers =
             <<URIRef(<<"http://catalog", "/catalogo/">>
                      \o input.dict["organization"][2]["name"][2])>>
    ELSE /\ exc = ""
         /\ Len(WrittenPublishers) = 1
         /\ IsBNode(WrittenPublishers[1])

\* the resources of the record graph_from_dataset was called on
InputResources == GetList(input.dict, "resources")

\* the distribution node graph_from_dataset writes for a resource
WrittenDistribution(resource_dict) == URIRef(Get(resource_dict, "uri")[2])

\* C26: for every resource with a non-empty url, the parser's rule
\* (accessURL if present, else downloadURL) applied to the distribution node
\* graph_from_dataset wrote gives back the resource's url, whatever its
\* download_url.
C26_WrittenUrlParsesBack ==
  (calls = <<"graph_from_dataset">> /\ input.kind = "dict" /\ exc = "") =>
    \A i \in 1..Len(InputResources) :
      Truthy(Get(InputResources[i], "url")) =>
        Or(_object_value(g, WrittenDistribution(InputResources[i]), "dcat:accessURL"),
           _object_value(g, WrittenDistribution(InputResources[i]), "dcat:downloadURL"))
          = InputResources[i]["url"]

C26_Witness ==
  /\ calls = <<"graph_from_dataset">> /\ input.kind = "dict" /\ exc = ""
  /\ Len(InputResources) = 2
  /\ Get(InputResources[1], "url") = S(<<"http://u">>)
  /\ Get(InputResources[1], "download_url") = S(<<"http://dl">>)
  /\ Get(InputResources[2], "url") = S(<<"http://u">>)
  /\ Get(InputResources[2], "download_url") = S(<<"http://u">>)
  /\ Objects(g, WrittenDistribution(InputResources[1]), "dcat:downloadURL")
       = <<AnyURI(<<"http://dl">>)>>
  /\ Objects(g, WrittenDistribution(InputResources[1]), "dcat:accessURL")
       = <<AnyURI(<<"http://u">>)>>
  /\ Objects(g, WrittenDistribution(InputResources[2]), "dcat:accessURL") = <<>>

ParsedExtras == results[1].value["extras"]

\* the rows of the extras table whose predicate has a non-empty value on the
\* dataset node
RowHasValue(row) ==
  /\ InputObjects(row[2]) # <<>>
  /\ InputObjects(row[2])[1][2] # <<>>

IsTableEntry(extra) == extra.key # "Data Dictionary"

\* C27: in the extras of a parsed record, an entry 'Data Dictionary' exists
\* iff an entry 'Data Dictionary URL0' exists, it comes immediately after it
\* and carries the constant text; all other entries appear in the order of the
\* table, one per predicate with a non-empty value on the dataset node.
C27_DataDictionaryFollowsItsUrl ==
  (FirstParse /\ results[1].returned) =>
    /\ \A i \in 1..Len(ParsedExtras) :
         /\ ParsedExtras[i].key = "Data Dictionary" =>
              /\ i > 1 /\ ParsedExtras[i - 1].key = "Data Dictionary URL0"
              /\ ParsedExtras[i].value = DataDictionaryText
         /\ ParsedExtras[i].key = "Data Dictionary URL0" =>
              /\ i < Len(ParsedExtras) /\ ParsedExtras[i + 1].key = "Data Dictionary"
    /\ SelectSeq(ParsedExtras, IsTableEntry)
         = [i \in 1..Len(SelectSeq(ExtrasTable, RowHasValue)) |->
              [key |-> SelectSeq(ExtrasTable, RowHasValue)[i][1],
               value |-> S(InputObjects(SelectSeq(ExtrasTable, RowHasValue)[i][2])[1][2])]]

C27_Witness ==
  /\ FirstParse /\ results[1].returned
  /\ Len(ParsedExtras) = 5
  /\ ParsedExtras[1].key = "01_IAEST_Tema estadistico"
  /\ ParsedExtras[2] = [key |-> "Data Dictionary URL0", value |-> S(<<"http://dictionary/1">>)]
  /\ ParsedExtras[3] = [key |-> "Data Dictionary", value |-> DataDictionaryText]
  /\ ParsedExtras[4].key = "Granularity"
  /\ ParsedExtras[5].key = "uriAragopedia"
  /\ input.dict # EmptyDict

\* C28: parse_dataset with compatibility_mode true gives the same outcome as
\* with compatibility_mode false, because none of the extras it produces has
\* the key issued, modified, publisher_name, publisher_email or language.
C28_CompatibilityModeChangesNothing ==
  (calls = <<"parse_dataset">> /\ input.config.compatibility_mode) =>
    /\ [dict |-> dataset_dict, exc |-> exc, returned |-> results[1].returned]
         = parse_dataset(input.g, input.dict, dataset_ref,
                         [input.config EXCEPT !.compatibility_mode = FALSE])
    /\ \A i \in 1..Len(dataset_dict["extras"]) :
         dataset_dict["extras"][i].key \notin
           {"issued", "modified", "publisher_name", "publisher_email", "language",
            "dcat_issued", "dcat_modified", "dcat_publisher_name", "dcat_publisher_email"}

C28_Witness ==
  /\ calls = <<"parse_dataset">> /\ input.config.compatibility_mode
  /\ results[1].returned
  /\ Len(dataset_dict["extras"]) = 6
  /\ \E i \in 1..6 : dataset_dict["extras"][i] = [key |-> "LangES", value |-> S(<<"es">>)]

\* iaest_to_ckan followed by ckan_to_iaest on a source dict
SourceRoundTripDone == calls = <<"iaest_to_ckan", "ckan_to_iaest">> /\ input.kind = "iaest"

SourceLanguages == GetList(input.value, "language")

CommaFree(languages) ==
  \A i \in 1..Len(languages) : \A j \in 1..Len(languages[i][2]) : languages[i][2][j] # ","

\* C29: for a source dict whose language is absent or a list of comma-free
\* strings (the empty list included), ckan_to_iaest(iaest_to_ckan(s)) has
\* language equal to that list, the empty list when s has none.
C29_LanguageSurvivesRoundTrip ==
  (SourceRoundTripDone /\ CommaFree(SourceLanguages)) =>
    /\ "language" \in DOMAIN iaest_dict
    /\ iaest_dict["language"] = SourceLanguages

====
